---- MODULE Spec2Model ----
(***************************************************************************)
(* A state-machine model of the seven-stage video pipeline of              *)
(* backend/app/agents/video_agent/agent.py and its orchestration in        *)
(* backend/app/agents/video_agent/video_agent.py.                          *)
(*                                                                         *)
(* Texts (names, prompts, model responses) are sequences of one-character  *)
(* strings, so that str.lower, str.replace, str.split, re.sub and the      *)
(* like are computed character by character.                               *)
(***************************************************************************)
EXTENDS Integers, Sequences, FiniteSets, TLC

(***************************************************************************)
(* Bounds of the model.                                                    *)
(***************************************************************************)
\* Longest asset list read by Stage 3.
MaxAssets == 5

\* Longest image list given to Stage 4.
MaxImages == 3

\* Longest slide list read by Stage 7.
MaxSlides == 3

(***************************************************************************)
(* Text helpers (Python str methods).                                      *)
(***************************************************************************)
UpperLetters ==
  <<"A","B","C","D","E","F","G","H","I","J","K","L","M",
    "N","O","P","Q","R","S","T","U","V","W","X","Y","Z">>

LowerLetters ==
  <<"a","b","c","d","e","f","g","h","i","j","k","l","m",
    "n","o","p","q","r","s","t","u","v","w","x","y","z">>

DigitChars == {"0","1","2","3","4","5","6","7","8","9"}

IsUpper(c) == \E i \in 1..Len(UpperLetters) : UpperLetters[i] = c

IsLowerLetter(c) == \E i \in 1..Len(LowerLetters) : LowerLetters[i] = c

\* str.lower on one character
LowerChar(c) ==
  IF IsUpper(c)
  THEN LowerLetters[CHOOSE i \in 1..Len(UpperLetters) : UpperLetters[i] = c]
  ELSE c

RECURSIVE Lower(_)
\* str.lower
Lower(s) == IF s = <<>> THEN <<>> ELSE <<LowerChar(Head(s))>> \o Lower(Tail(s))

\* Python whitespace as it occurs in the modelled texts
IsSpace(c) == c \in {" ", "\n"}

RECURSIVE LStrip(_, _)
\* str.lstrip(chars)
LStrip(s, chars) ==
  IF s # <<>> /\ Head(s) \in chars THEN LStrip(Tail(s), chars) ELSE s

RECURSIVE RStrip(_, _)
\* str.rstrip(chars)
RStrip(s, chars) ==
  IF s # <<>> /\ s[Len(s)] \in chars
  THEN RStrip(SubSeq(s, 1, Len(s) - 1), chars)
  ELSE s

\* str.strip(chars)
StripChars(s, chars) == RStrip(LStrip(s, chars), chars)

\* str.strip()
Strip(s) == StripChars(s, {" ", "\n"})

RECURSIVE SplitWS(_, _, _)
\* str.split(): the maximal runs of non-whitespace characters, in order
SplitWS(s, cur, acc) ==
  IF s = <<>>
  THEN IF cur = <<>> THEN acc ELSE Append(acc, cur)
  ELSE IF IsSpace(Head(s))
       THEN SplitWS(Tail(s), <<>>, IF cur = <<>> THEN acc ELSE Append(acc, cur))
       ELSE SplitWS(Tail(s), Append(cur, Head(s)), acc)

Words(s) == SplitWS(s, <<>>, <<>>)

RECURSIVE JoinWith(_, _)
\* sep.join(parts)
JoinWith(parts, sep) ==
  IF parts = <<>> THEN <<>>
  ELSE IF Len(parts) = 1 THEN parts[1]
  ELSE parts[1] \o sep \o JoinWith(Tail(parts), sep)

\* seq[:n]
FirstN(seq, n) == SubSeq(seq, 1, IF Len(seq) < n THEN Len(seq) ELSE n)

(***************************************************************************)
(* Stage 3: image generation with retries and prompt simplification.       *)
(***************************************************************************)
\* range(1, 4): attempts with one prompt
AttemptsPerPrompt == 3

MinImageBytesExclusive == 1000 + 1

\* len(r.content) < 1000 is rejected
MinImageBytes == 1000

\* original_prompt.split()[:8] in the simplification fallback
FallbackWords == 8

VARIABLES
  assets,          \* the list loaded from step2_assets.json
  pc3,             \* position in stage3_generate_images / its caller
  idx3,            \* position of `item` in assets (1-based)
  attempt,         \* the attempt loop variable
  success,         \* the local success flag of the current item
  current_prompt,  \* the prompt of the request being made
  results,         \* the list being returned
  calls,           \* requests.get calls made for the current item
  simplify_calls,  \* simplify_image_prompt calls made for the current item
  image_files,     \* files in images_dir: records [path, owner]
  accepted,        \* positions of the assets for which the endpoint delivered
  attempted,       \* positions of the assets for which a request was made
  images_info,     \* the list handed to stage4_remove_backgrounds
  pc4,             \* position in stage4_remove_backgrounds
  rembg_available, \* REMBG_AVAILABLE
  idx4,            \* position of img_info in images_info (1-based)
  results4,        \* the list stage4_remove_backgrounds builds and returns
  nobg_files,      \* paths written under <output_dir>/no_bg
  images_at_call,  \* the value of images_info when Stage 4 was called
  removed4,        \* positions of the images whose background was removed
  slides7,         \* the list loaded from step4_slides.json by Stage 7
  script_segments, \* the narrations of the segments of step1_script.json
  fs7,             \* the png files Stage 7 can see: records [dir, file]
  elevenlabs_key,  \* whether ELEVENLABS_API_KEY is set
  tts_local,       \* TTS_LOCAL_AVAILABLE
  pc7,             \* position in stage7_compose_video
  i7,              \* the slide loop variable i (0-based, as in the code)
  duration7,       \* the local `duration`, in tenths of a second
  audio7,          \* the length of the synthesized audio, in tenths of a second
  narration7,      \* the local `narration`
  img_entry,       \* the local `img_entry`
  segment_files,   \* the clips appended so far: [index, image, duration, narration]
  tts_calls,       \* the slides for which tts_synthesize was called
  tts_log,         \* one record per tts_synthesize call: what it did
  tts_failed,      \* the slides whose tts_synthesize call raised
  render_failed,   \* the slides whose ffmpeg clip command exited non-zero
  concat_attempted,\* whether the concat command was run
  final_video      \* whether output_video was written

vars3 == <<assets, pc3, idx3, attempt, success, current_prompt, results,
           calls, simplify_calls, image_files, accepted, attempted>>

vars4 == <<images_info, pc4, rembg_available, idx4, results4, nobg_files,
           images_at_call, removed4>>

vars7 == <<slides7, script_segments, fs7, elevenlabs_key, tts_local, pc7, i7,
           duration7, audio7, narration7, img_entry, segment_files, tts_calls,
           tts_log, tts_failed, render_failed, concat_attempted, final_video>>

VARIABLES
  text,            \* the argument of robust_parse_json
  parse_pc,        \* position in robust_parse_json
  parse_value,     \* the value robust_parse_json returns
  segments5,       \* script["segments"] as Stage 5 loads it
  pc5,             \* position in stage5_generate_slides
  idx5,            \* position of seg in segments5 (1-based)
  slides5,         \* the list `slides` Stage 5 builds
  raws5,           \* the model responses received so far, one per call
  slides_file,     \* whether step4_slides.json was written
  parsed1,         \* what robust_parse_json made of Stage 1's model response
  pc1,             \* position in stage1_generate_script
  script_file,     \* whether step1_script.json was written
  script_bytes,    \* what step1_script.json holds (<<>>: no file)
  previous_bytes,  \* what it held after the previous call on this response
  calls1,          \* the calls of stage1_generate_script so far
  images6,         \* images_info as Stage 6 receives it
  exists6,         \* the paths for which os.path.exists holds
  img_name,        \* the name of the image reference being resolved
  pc6,             \* position in the resolution of one image reference
  image_lookup,    \* the dict image_lookup: records [key, path], one per key
  image_files_by_normalized, \* the dict of that name: a sequence of [key, path]
  local_path,      \* the local `local_path`
  tier6            \* the tier that set local_path (0: none)

varsP == <<text, parse_pc, parse_value>>

vars5 == <<segments5, pc5, idx5, slides5, raws5, slides_file>>

vars1 == <<parsed1, pc1, script_file, script_bytes, previous_bytes, calls1>>

vars6 == <<images6, exists6, img_name, pc6, image_lookup,
           image_files_by_normalized, local_path, tier6>>

VARIABLES
  slides_data,     \* the slide layout list stage6_create_ffmpeg_slides loads
  ffmpeg_present,  \* whether shutil.which("ffmpeg") finds the tool
  pc6s,            \* position in stage6_create_ffmpeg_slides
  slide_no,        \* the position the outer enumerate(slides_data) is at
  exported_slides, \* the list of that name
  slide_pngs,      \* the positions whose slide_<n>.png was written
  slides_info_file, \* what ffmpeg_slides_info.json holds (<<"none">>: no file)
  attempts6        \* what happened to each slide so far, in slide order

vars6s == <<slides_data, ffmpeg_present, pc6s, slide_no, exported_slides,
            slide_pngs, slides_info_file, attempts6>>

VARIABLES
  run_entry,       \* per run: the orchestrator that runs it
  run_ts,          \* per run: datetime.now().strftime("%Y%m%d_%H%M%S")
  run_phase,       \* per run: called, between stages, in_stage, finished
  run_next,        \* per run: the stage called next (or being executed)
  stage_state,     \* per run and stage: not_started, running, returned, raised
  started,         \* per run: the stages started so far, in order
  outcome,         \* per run: what the orchestrator gave its caller
  written          \* the file writes so far: [path, run, stage]

varsRun == <<run_entry, run_ts, run_phase, run_next, stage_state, started,
             outcome, written>>

VARIABLES
  segments2,       \* how many segments the script Stage 2 loads has
  pc2,             \* position in stage2_generate_assets
  idx2,            \* the position enumerate(script["segments"]) is at
  responses2,      \* per segment so far: the parsed response and what was validated
  all_assets,      \* the list of that name
  origins2,        \* for each entry of all_assets, the segment it came from
  debug_dumps,     \* the segments whose step2_segment<idx>_raw.json exists
  assets_file      \* what step2_assets.json holds (NoAssetsFile: no file)

vars2 == <<segments2, pc2, idx2, responses2, all_assets, origins2, debug_dumps,
           assets_file>>

VARIABLES
  resp3,           \* what the image endpoint answers during this call
  write_ok3        \* whether writing an image file succeeds during this call

vars3e == <<resp3, write_ok3>>

varsMore == <<vars6s, varsRun, vars2, vars3e>>

varsRest == <<varsP, vars5, vars1, vars6, varsMore>>

vars == <<vars3, vars4, vars7, varsRest>>

T_cell_diagram_sp == <<"c","e","l","l"," ","d","i","a","g","r","a","m">>
T_cell_diagram_us == <<"c","e","l","l","_","d","i","a","g","r","a","m">>
T_heart == <<"h","e","a","r","t">>
T_dna == <<"D","N","A","-","1">>

\* Asset names as Stage 2 may persist them
AssetNamePool == <<T_cell_diagram_sp, T_heart, T_cell_diagram_us, T_dna>>

\* Asset prompts: empty, two words, nine words
AssetPromptPool ==
  << <<"r","e","d"," ","c","e","l","l">>,
     <<>>,
     <<"a"," ","b"," ","c"," ","d"," ","e"," ","f"," ","g"," ","h"," ","i">> >>

PoolAt(pool, i) == pool[((i - 1) % Len(pool)) + 1]

\* The text Gemini returns for a simplification request
GeminiSimplifications == { <<" ","\"","c","e","l","l","\"","\n">> }

ImagesDir == "images"

\* os.path.join(dir, f"{stem}.png")
PngPath(dir, stem) == [dir |-> dir, stem |-> stem]

\* re.sub(r"[^A-Za-z0-9_-]", "_", name) on one character
SanitizeChar(c) ==
  IF IsUpper(c) \/ IsLowerLetter(c) \/ c \in DigitChars \/ c \in {"_", "-"}
  THEN c ELSE "_"

RECURSIVE SanitizeName(_)
SanitizeName(s) ==
  IF s = <<>> THEN <<>> ELSE <<SanitizeChar(Head(s))>> \o SanitizeName(Tail(s))

\* name = re.sub(..., item.get("name", "asset"))
ItemName(item) == SanitizeName(item.name)

\* original_prompt = item.get("prompt") or item.get("name")
OriginalPrompt(item) == IF item.prompt # <<>> THEN item.prompt ELSE item.name

\* img_path = os.path.join(images_dir, f"{name}.png")
ImgPath(item) == PngPath(ImagesDir, ItemName(item))

\* What requests.get may deliver
Responses ==
  {[status |-> s, len |-> 0] : s \in {"timeout", "500"}}
    \cup {[status |-> "200", len |-> n] : n \in {0, 999, 1000, 1001}}

\* The exception raised inside the try block of one attempt ("none": none)
AttemptException(resp, write_ok) ==
  IF resp.status = "timeout" THEN "RequestException"
  ELSE IF resp.status # "200" THEN "HTTPError"
  ELSE IF resp.len < MinImageBytes THEN "ValueError"
  ELSE IF ~write_ok THEN "OSError"
  ELSE "none"

Stage3CatchesRequestErrorsOnly(exc) == exc \in {"RequestException", "HTTPError"}

\* except Exception as e: of both attempt loops
Stage3Catches(exc) == TRUE

AttemptsPerPromptOneMore == AttemptsPerPrompt + 1

\* The bound of both attempt loops
LoopAttempts == AttemptsPerPrompt

LiteralResultFlagged(name, path, prompt) ==
  [name |-> name, path |-> path, prompt |-> prompt, simplified |-> "true"]

\* {"name": name, "path": img_path, "prompt": current_prompt}
LiteralResult(name, path, prompt) ==
  [name |-> name, path |-> path, prompt |-> prompt, simplified |-> "unset"]

\* {"name": ..., "path": ..., "prompt": ..., "simplified": True}
SimplifiedResult(name, path, prompt) ==
  [name |-> name, path |-> path, prompt |-> prompt, simplified |-> "true"]

\* fh.write(r.content) to img_path
WriteImage(files, path, owner) ==
  {f \in files : f.path # path} \cup {[path |-> path, owner |-> owner]}

\* simplify_image_prompt: Gemini's answer stripped, or the first 8 words
SimplifyImagePrompt(original_prompt, gemini_ok, gemini_text) ==
  IF gemini_ok
  THEN StripChars(Strip(gemini_text), {"\"", "'"})
  ELSE JoinWith(FirstN(Words(original_prompt), FallbackWords), <<" ">>)

Stage3Idle ==
  /\ assets = <<>>
  /\ pc3 = "idle"
  /\ idx3 = 1
  /\ attempt = 1
  /\ success = FALSE
  /\ current_prompt = <<>>
  /\ results = <<>>
  /\ calls = 0
  /\ simplify_calls = 0
  /\ image_files = {}
  /\ accepted = {}
  /\ attempted = {}

Stage4Idle ==
  /\ images_info = <<>>
  /\ pc4 = "idle"
  /\ rembg_available = TRUE
  /\ idx4 = 1
  /\ results4 = <<>>
  /\ nobg_files = {}
  /\ images_at_call = <<>>
  /\ removed4 = {}

NoImage == [dir |-> "", file |-> ""]

Stage7Idle ==
  /\ slides7 = <<>>
  /\ script_segments = <<>>
  /\ fs7 = {}
  /\ elevenlabs_key = FALSE
  /\ tts_local = FALSE
  /\ pc7 = "idle"
  /\ i7 = 0
  /\ duration7 = 0
  /\ audio7 = 0
  /\ narration7 = ""
  /\ img_entry = NoImage
  /\ segment_files = <<>>
  /\ tts_calls = {}
  /\ tts_log = <<>>
  /\ tts_failed = {}
  /\ render_failed = {}
  /\ concat_attempted = FALSE
  /\ final_video = FALSE

\* No call of robust_parse_json under way
ParseIdle ==
  /\ text = <<>>
  /\ parse_pc = "idle"
  /\ parse_value = <<>>

Stage5Idle ==
  /\ segments5 = <<>>
  /\ pc5 = "idle"
  /\ idx5 = 1
  /\ slides5 = <<>>
  /\ raws5 = <<>>
  /\ slides_file = FALSE

Stage1Idle ==
  /\ parsed1 = <<>>
  /\ pc1 = "idle"
  /\ script_file = FALSE
  /\ script_bytes = <<>>
  /\ previous_bytes = <<>>
  /\ calls1 = 0

Stage6Idle ==
  /\ images6 = <<>>
  /\ exists6 = {}
  /\ img_name = <<>>
  /\ pc6 = "idle"
  /\ image_lookup = {}
  /\ image_files_by_normalized = <<>>
  /\ local_path = ""
  /\ tier6 = 0

\* The runs and the stages of the pipeline
Runs == {1, 2}

Stages == 1..7

NoVideoPath == <<"None">>

NoOutcome == [status |-> "running", file_path |-> NoVideoPath]

RunIdle ==
  /\ run_entry = [r \in Runs |-> "none"]
  /\ run_ts = [r \in Runs |-> "none"]
  /\ run_phase = [r \in Runs |-> "idle"]
  /\ run_next = [r \in Runs |-> 1]
  /\ stage_state = [r \in Runs |-> [k \in Stages |-> "not_started"]]
  /\ started = [r \in Runs |-> <<>>]
  /\ outcome = [r \in Runs |-> NoOutcome]
  /\ written = {}

Slides6Idle ==
  /\ slides_data = <<>>
  /\ ffmpeg_present = FALSE
  /\ pc6s = "idle"
  /\ slide_no = 0
  /\ exported_slides = <<>>
  /\ slide_pngs = {}
  /\ slides_info_file = <<"none">>
  /\ attempts6 = <<>>

\* step2_assets.json has not been written
NoAssetsFile == <<[type |-> "no file"]>>

Stage2Idle ==
  /\ segments2 = 0
  /\ pc2 = "idle"
  /\ idx2 = 0
  /\ responses2 = <<>>
  /\ all_assets = <<>>
  /\ origins2 = <<>>
  /\ debug_dumps = {}
  /\ assets_file = NoAssetsFile

Endpoint3Idle ==
  /\ resp3 = [status |-> "none", len |-> 0]
  /\ write_ok3 = FALSE

MoreIdle == Slides6Idle /\ RunIdle /\ Stage2Idle /\ Endpoint3Idle

RestIdleButMore == ParseIdle /\ Stage5Idle /\ Stage1Idle /\ Stage6Idle

RestIdle == RestIdleButMore

\* The asset lists of step2_assets.json: n assets, names and prompts from the pools
AssetLists ==
  { [i \in 1..n |-> [name |-> PoolAt(AssetNamePool, i + off),
                     prompt |-> PoolAt(AssetPromptPool, i + off)]] :
      n \in 0..MaxAssets, off \in 0..1 }

InitStage3 ==
  /\ MoreIdle
  /\ assets \in AssetLists
  /\ pc3 = "for_item"
  /\ idx3 = 1
  /\ attempt = 1
  /\ success = FALSE
  /\ current_prompt = <<>>
  /\ results = <<>>
  /\ calls = 0
  /\ simplify_calls = 0
  /\ image_files = {}
  /\ accepted = {}
  /\ attempted = {}
  /\ Stage4Idle
  /\ Stage7Idle
  /\ RestIdle

\* for item in assets: (loop head), and return results
S3ForItem ==
  /\ pc3 = "for_item"
  /\ IF idx3 <= Len(assets)
     THEN /\ success' = FALSE
          /\ current_prompt' = OriginalPrompt(assets[idx3])
          /\ attempt' = 1
          /\ calls' = 0
          /\ simplify_calls' = 0
          /\ pc3' = "literal"
     ELSE /\ pc3' = "returned"
          /\ UNCHANGED <<success, current_prompt, attempt, calls, simplify_calls>>
  /\ UNCHANGED <<assets, idx3, results, image_files, accepted, attempted, vars4, vars7, varsRest>>

\* One iteration of an attempt loop: the request, the size check, the write
S3AttemptWith(here, after_loop, resp, write_ok) ==
  /\ pc3 = here
  /\   LET exc == AttemptException(resp, write_ok)
           item == assets[idx3]
       IN /\ calls' = calls + 1
          /\ attempted' = attempted \cup {idx3}
          /\ IF exc = "none"
             THEN /\ image_files' = WriteImage(image_files, ImgPath(item), idx3)
                  /\ results' = Append(results,
                       IF here = "literal"
                       THEN LiteralResult(ItemName(item), ImgPath(item), current_prompt)
                       ELSE SimplifiedResult(ItemName(item), ImgPath(item), current_prompt))
                  /\ success' = TRUE
                  /\ accepted' = accepted \cup {idx3}
                  /\ pc3' = "item_end"
                  /\ UNCHANGED attempt
             ELSE /\ IF Stage3Catches(exc)
                     THEN IF attempt < LoopAttempts
                          THEN attempt' = attempt + 1 /\ pc3' = here
                          ELSE attempt' = attempt /\ pc3' = after_loop
                     ELSE attempt' = attempt /\ pc3' = "raised"
                  /\ UNCHANGED <<image_files, results, success, accepted>>
  /\ UNCHANGED <<assets, idx3, current_prompt, simplify_calls, vars4, vars7,
                 varsRest>>

S3Attempt(here, after_loop) ==
  \E resp \in Responses, write_ok \in BOOLEAN :
    S3AttemptWith(here, after_loop, resp, write_ok)

\* for attempt in range(1, 4): with the original prompt
S3LiteralAttempt == S3Attempt("literal", "simplify")

\* if not success: simplified_prompt = simplify_image_prompt(original_prompt)
S3Simplify ==
  /\ pc3 = "simplify"
  /\ \E gemini_ok \in BOOLEAN, gemini_text \in GeminiSimplifications :
       current_prompt' =
         SimplifyImagePrompt(OriginalPrompt(assets[idx3]), gemini_ok, gemini_text)
  /\ simplify_calls' = simplify_calls + 1
  /\ attempt' = 1
  /\ pc3' = "simplified"
  /\ UNCHANGED <<assets, idx3, success, results, calls, image_files, accepted,
                 attempted, vars4, vars7, varsRest>>

\* for attempt in range(1, 4): with the simplified prompt
S3SimplifiedAttempt == S3Attempt("simplified", "item_end")

\* if not success: log the failure; else: sleep; then the next item
S3ItemEnd ==
  /\ pc3 = "item_end"
  /\ idx3' = idx3 + 1
  /\ pc3' = "for_item"
  /\ UNCHANGED <<assets, attempt, success, current_prompt, results, calls,
                 simplify_calls, image_files, accepted, attempted, vars4, vars7, varsRest>>

\* run_agent: images_nobg = stage4_remove_backgrounds(images_info=images_data, ...)
RunAgentCallsStage4 ==
  /\ pc3 = "returned"
  /\ pc3' = "stage4"
  /\ images_info' = results
  /\ images_at_call' = results
  /\ pc4' = "called"
  /\ UNCHANGED <<rembg_available, idx4, results4, nobg_files, removed4, vars7,
                 varsRest>>
  /\ UNCHANGED <<assets, idx3, attempt, success, current_prompt, results, calls,
                 simplify_calls, image_files, accepted, attempted>>

NextStage3 ==
  \/ S3ForItem
  \/ S3LiteralAttempt
  \/ S3Simplify
  \/ S3SimplifiedAttempt
  \/ S3ItemEnd
  \/ RunAgentCallsStage4

SpecStage3 == InitStage3 /\ [][NextStage3]_vars

(***************************************************************************)
(* Stage 4: background removal.                                            *)
(***************************************************************************)
NoBgDir == "images/no_bg"

\* An entry without a "path" (img_info.get("path") is None)
NoPath == [dir |-> "", stem |-> <<>>]

\* output_path = os.path.join(processed_dir, f"{name}_nobg.png")
NoBgPath(name) == PngPath(NoBgDir, name \o <<"_","n","o","b","g">>)

\* Entries as Stage 3 returns them, and one that lost its path
ImageInfoPool ==
  { LiteralResult(T_cell_diagram_us, PngPath(ImagesDir, T_cell_diagram_us), T_heart),
    SimplifiedResult(T_heart, PngPath(ImagesDir, T_heart), T_heart),
    LiteralResult(T_heart, NoPath, T_heart) }

RECURSIVE SeqsUpTo(_, _)
\* The sequences over S of length at most n
SeqsUpTo(S, n) ==
  IF n = 0 THEN {<<>>}
  ELSE LET shorter == SeqsUpTo(S, n - 1)
       IN shorter \cup {Append(q, x) : q \in {r \in shorter : Len(r) = n - 1}, x \in S}

\* updated_info = img_info.copy() with path, original_path, background_removed set
UpdatedInfo(img_info, output_path) ==
  [name |-> img_info.name, path |-> output_path, prompt |-> img_info.prompt,
   simplified |-> img_info.simplified, original_path |-> img_info.path,
   background_removed |-> TRUE]

Stage4FailureDropsEntry(res, img_info) == res

\* results.append(img_info) for a missing file and in the except branch
Stage4KeepOriginal(res, img_info) == Append(res, img_info)

\* What the success branch leaves in the caller's list: copy() makes the
\* update on a new dict, so the entry of images_info is untouched
InputAfterUpdate(infos, i, output_path) == infos

InitStage4 ==
  /\ MoreIdle
  /\ Stage3Idle
  /\ RestIdle
  /\ images_info \in SeqsUpTo(ImageInfoPool, MaxImages)
  /\ images_at_call = images_info
  /\ pc4 = "called"
  /\ rembg_available \in BOOLEAN
  /\ idx4 = 1
  /\ results4 = <<>>
  /\ nobg_files = {}
  /\ removed4 = {}
  /\ Stage7Idle

\* if not REMBG_AVAILABLE: return images_info; else results = [], makedirs
S4Enter ==
  /\ pc4 = "called"
  /\ IF ~rembg_available
     THEN results4' = images_info /\ pc4' = "returned"
     ELSE results4' = <<>> /\ pc4' = "loop"
  /\ idx4' = 1
  /\ UNCHANGED <<images_info, rembg_available, nobg_files, images_at_call,
                 removed4, vars3, vars7, varsRest>>

\* What reading the file, remove(input_data) and writing the result may raise
RemovalOutcomes == {"none", "OSError", "RembgError"}

\* except Exception as e: around the removal of one image
Stage4Catches(exc) == TRUE

\* One iteration of for idx, img_info in enumerate(images_info)
S4Image ==
  /\ pc4 = "loop"
  /\ idx4 <= Len(images_info)
  /\ \E file_exists \in BOOLEAN, exc \in RemovalOutcomes :
       LET img_info == images_info[idx4]
           output_path == NoBgPath(img_info.name)
       IN IF img_info.path = NoPath \/ ~file_exists
          THEN /\ results4' = Stage4KeepOriginal(results4, img_info)
               /\ pc4' = pc4
               /\ UNCHANGED <<images_info, nobg_files, removed4>>
          ELSE IF exc = "none"
          THEN /\ nobg_files' = nobg_files \cup {output_path}
               /\ results4' = Append(results4, UpdatedInfo(img_info, output_path))
               /\ images_info' = InputAfterUpdate(images_info, idx4, output_path)
               /\ removed4' = removed4 \cup {idx4}
               /\ pc4' = pc4
          ELSE IF Stage4Catches(exc)
          THEN /\ results4' = Stage4KeepOriginal(results4, img_info)
               /\ pc4' = pc4
               /\ UNCHANGED <<images_info, nobg_files, removed4>>
          ELSE /\ pc4' = "raised"
               /\ UNCHANGED <<results4, images_info, nobg_files, removed4>>
  /\ idx4' = idx4 + 1
  /\ UNCHANGED <<rembg_available, images_at_call, vars3, vars7, varsRest>>

\* The loop is exhausted: log and return results
S4Return ==
  /\ pc4 = "loop"
  /\ idx4 > Len(images_info)
  /\ pc4' = "returned"
  /\ UNCHANGED <<images_info, rembg_available, idx4, results4, nobg_files,
                 images_at_call, removed4, vars3, vars7, varsRest>>

NextStage4 ==
  \/ S4Enter
  \/ S4Image
  \/ S4Return

SpecStage4 == InitStage4 /\ [][NextStage4]_vars

\* C7: Stage 4 never raises and returns a list of the same length and order
\* as its input: entry i has the background-removed path when the removal of
\* image i succeeded and is the input entry otherwise; without the removal
\* capability the input list itself is returned; the caller's entries are
\* never changed.
C7_SameLengthSameOrder ==
  /\ pc4 # "raised"
  /\ images_info = images_at_call
  /\ pc4 = "returned" =>
       /\ Len(results4) = Len(images_at_call)
       /\ \A i \in 1..Len(images_at_call) :
            /\ results4[i].name = images_at_call[i].name
            /\ IF i \in removed4
               THEN /\ results4[i].path = NoBgPath(images_at_call[i].name)
                    /\ results4[i].path \in nobg_files
               ELSE results4[i] = images_at_call[i]
       /\ ~rembg_available => results4 = images_at_call /\ nobg_files = {}

\* Three images: one removed, one failing in rembg or missing, one without a path
C7_Witness ==
  /\ pc4 = "returned"
  /\ rembg_available
  /\ Len(images_at_call) = 3
  /\ 1 \in removed4
  /\ 2 \notin removed4
  /\ images_at_call[2].path # NoPath
  /\ images_at_call[3].path = NoPath

(***************************************************************************)
(* Stage 3 properties.                                                     *)
(***************************************************************************)
RECURSIVE NamesOfPositions(_, _)
\* The sanitized names of the assets at the positions of S from position i on, in list order
NamesOfPositions(S, i) ==
  IF i > Len(assets) THEN <<>>
  ELSE (IF i \in S THEN <<ItemName(assets[i])>> ELSE <<>>) \o NamesOfPositions(S, i + 1)

ResultNames == [i \in 1..Len(results) |-> results[i].name]

\* C1: Stage 3 never aborts the batch because one asset fails. No exception
\* leaves the stage; when it returns, a request has been made for every asset
\* of the list and the returned list holds exactly the assets for which the
\* endpoint delivered an acceptable image, in input order; the caller then
\* calls Stage 4 with that list.
C1_PartialFailureContained ==
  /\ pc3 # "raised"
  /\ ResultNames = NamesOfPositions(accepted, 1)
  /\ pc3 \in {"returned", "stage4"} =>
       /\ idx3 = Len(assets) + 1
       /\ attempted = 1..Len(assets)
       /\ Len(results) = Cardinality(accepted)
  /\ pc3 = "returned" => ENABLED RunAgentCallsStage4
  /\ pc3 = "stage4" => pc4 = "called" /\ images_info = results

\* Five assets, exactly one of which failed all its attempts: four results, Stage 4 called
C1_Witness ==
  /\ pc3 = "stage4"
  /\ Len(assets) = 5
  /\ Cardinality(attempted) = 5
  /\ Len(results) = 4
  /\ accepted = {1, 2, 4, 5}

\* C2: at most 6 endpoint calls are made per asset, the first 3 with the
\* literal prompt and the last 3 after the one simplification request; an
\* asset for which every call failed has had exactly 6 calls, has no result
\* and no exception was raised.
C2_AttemptCeiling ==
  /\ pc3 # "raised"
  /\ calls <= 6
  /\ pc3 = "literal" =>
       calls < 3 /\ simplify_calls = 0
         /\ current_prompt = OriginalPrompt(assets[idx3])
  /\ pc3 = "simplify" => calls = 3 /\ simplify_calls = 0
  /\ pc3 = "simplified" => calls >= 3 /\ calls < 6 /\ simplify_calls = 1
  /\ (pc3 = "item_end" /\ idx3 \notin accepted) =>
       /\ calls = 6
       /\ simplify_calls = 1
       /\ ~success
       /\ ResultNames = NamesOfPositions(accepted, 1)
       /\ Len(results) = Cardinality(accepted)

\* An asset whose six calls all failed
C2_Witness ==
  /\ pc3 = "item_end"
  /\ idx3 \notin accepted
  /\ calls = 6
  /\ ~success

\* C3: an asset whose literal attempt k is the first to succeed used exactly
\* k calls, no simplification was requested for it and its result has no
\* simplified flag; simplification is requested only once 3 literal calls have
\* failed, and a result obtained after it carries simplified = true.
C3_LiteralSuccessUnflagged ==
  /\ simplify_calls > 0 => calls >= 3
  /\ pc3 \in {"simplify", "simplified"} => idx3 \notin accepted
  /\ (pc3 = "item_end" /\ success) =>
       /\ idx3 \in accepted
       /\ results # <<>>
       /\ results[Len(results)].name = ItemName(assets[idx3])
       /\ IF simplify_calls = 0
          THEN /\ calls = attempt
               /\ calls \in 1..3
               /\ results[Len(results)].simplified = "unset"
               /\ results[Len(results)].prompt = OriginalPrompt(assets[idx3])
          ELSE /\ calls = 3 + attempt
               /\ results[Len(results)].simplified = "true"
               /\ results[Len(results)].prompt = current_prompt

\* The endpoint failed twice and delivered on the third call
C3_Witness ==
  /\ pc3 = "item_end"
  /\ success
  /\ calls = 3
  /\ simplify_calls = 0
  /\ results[Len(results)].simplified = "unset"

(***************************************************************************)
(* Stage 7: narration audio, per-slide clips, concatenation.               *)
(***************************************************************************)
\* duration = slide.get("slide_duration", 6), in tenths of a second
DefaultSlideDuration == 60

\* A slide without a "slide_duration" key
NoDuration == -1

SlidesDir == "slides_dir"

GlobalImagesDir == "IMAGES_DIR"

GlobalNoBgDir == "IMAGES_DIR/no_bg"

\* f"slide_{i:03d}.png" for i = 0, 1, ...
SlideFileNames ==
  <<"slide_000", "slide_001", "slide_002", "slide_003", "slide_004", "slide_005">>

\* canva_slide = os.path.join(slides_dir, f"slide_{i:03d}.png")
SlidePng(i) == [dir |-> SlidesDir, file |-> SlideFileNames[i + 1]]

\* Slides as step4_slides.json may hold them
SlidePool ==
  << [slide_title |-> "Title A", caption |-> "Caption A", narration |-> "",
      slide_duration |-> 60, images |-> <<"heart">>],
     [slide_title |-> "Title B", caption |-> "", narration |-> "",
      slide_duration |-> NoDuration, images |-> <<>>],
     [slide_title |-> "Title C", caption |-> "Caption C", narration |-> "",
      slide_duration |-> 120, images |-> <<"lung">>] >>

\* The narrations of the script's segments
NarrationPool == <<"Narration 1", "Narration 2", "Narration 3">>

\* What ffprobe reports for the audio, in tenths of a second (-1: it failed)
ProbeOutcomes == {-1, 45, 92}

\* How long the audio tts_synthesize wrote is, in tenths of a second
AudioLengths == {45, 92}

TtsSynthesizeWithFallback(key, local, paid_ok, local_ok) ==
  IF key /\ paid_ok
  THEN [provider |-> "elevenlabs", invoked |-> {"elevenlabs"},
        synthesized |-> TRUE, raised |-> FALSE]
  ELSE IF local
  THEN [provider |-> "pyttsx3",
        invoked |-> IF key THEN {"elevenlabs", "pyttsx3"} ELSE {"pyttsx3"},
        synthesized |-> local_ok, raised |-> ~local_ok]
  ELSE [provider |-> "none", invoked |-> IF key THEN {"elevenlabs"} ELSE {},
        synthesized |-> FALSE, raised |-> TRUE]

\* tts_synthesize: the provider the call uses, the providers it invokes,
\* whether an audio file was synthesized and whether it raises
TtsSynthesize(key, local, paid_ok, local_ok) ==
  IF key
  THEN [provider |-> "elevenlabs", invoked |-> {"elevenlabs"},
        synthesized |-> paid_ok, raised |-> ~paid_ok]
  ELSE IF local
  THEN [provider |-> "pyttsx3", invoked |-> {"pyttsx3"},
        synthesized |-> local_ok, raised |-> ~local_ok]
  ELSE [provider |-> "none", invoked |-> {},
        synthesized |-> FALSE, raised |-> TRUE]

SlideNarrationSlideFirst(slide, i, segs) ==
  IF slide.caption # "" THEN slide.caption
  ELSE IF i < Len(segs) THEN segs[i + 1]
  ELSE slide.slide_title

\* The narration text of slide i (0-based)
SlideNarration(slide, i, segs) ==
  LET from_script == IF i < Len(segs) THEN segs[i + 1] ELSE ""
  IN IF from_script # "" THEN from_script
     ELSE IF slide.narration # "" THEN slide.narration
     ELSE IF slide.caption # "" THEN slide.caption
     ELSE slide.slide_title

\* duration = slide.get("slide_duration", 6)
PlannedDuration(slide) ==
  IF slide.slide_duration = NoDuration THEN DefaultSlideDuration
  ELSE slide.slide_duration

\* duration = max(duration, audio_duration), unless ffprobe failed
ReconciledDuration(planned, probed) ==
  IF probed = -1 THEN planned
  ELSE IF probed > planned THEN probed ELSE planned

\* use_canva_slides as run_agent passes it
UseCanvaSlides == TRUE

FilesIn(fs, dir) == {f \in fs : f.dir = dir}

\* The values img_entry may get for slide i; os.listdir has no defined order,
\* so candidates[0] is any png of the directory. {}: no image found
ImageChoices(slide, i, fs) ==
  IF UseCanvaSlides /\ SlidePng(i) \in fs THEN {SlidePng(i)}
  ELSE
    LET first_image == IF slide.images # <<>> THEN slide.images[1] ELSE ""
        named(dir) == [dir |-> dir, file |-> first_image]
        by_name ==
          IF first_image = "" THEN {}
          ELSE IF named(SlidesDir) \in fs THEN {named(SlidesDir)}
          ELSE IF named(GlobalImagesDir) \in fs THEN {named(GlobalImagesDir)}
          ELSE IF named(GlobalNoBgDir) \in fs THEN {named(GlobalNoBgDir)}
          ELSE {}
    IN IF by_name # {} THEN by_name
       ELSE IF FilesIn(fs, SlidesDir) # {} THEN FilesIn(fs, SlidesDir)
       ELSE FilesIn(fs, GlobalImagesDir)

Stage7SwallowsTtsError == "skip"

\* except RuntimeError / except Exception around tts_synthesize: both re-raise
OnTtsFailure == "raise"


\* subprocess.run(cmd, check=True, ...) of the per-slide clip command
RenderCheckTrue == TRUE

\* The slide lists: the first n slides of the pool
SlideLists == { [i \in 1..n |-> PoolAt(SlidePool, i)] : n \in 0..MaxSlides }

\* Rasterized slides left by Stage 6 for n slides: all, none or all but one
SlidePngSets(n) ==
  { {SlidePng(i) : i \in S} :
      S \in {T \in SUBSET (0..(n - 1)) : Cardinality(T) \in {0, n - 1, n}} }

InitStage7 ==
  /\ MoreIdle
  /\ Stage3Idle
  /\ RestIdle
  /\ Stage4Idle
  /\ slides7 \in SlideLists
  /\ \E k \in {0, Len(slides7) - 1, Len(slides7)} :
       /\ k >= 0
       /\ script_segments = [i \in 1..k |-> PoolAt(NarrationPool, i)]
  /\ \E pngs \in SlidePngSets(Len(slides7)),
        imgs \in {{}, {[dir |-> GlobalImagesDir, file |-> "heart"]}} :
       fs7 = pngs \cup imgs
  /\ elevenlabs_key \in BOOLEAN
  /\ tts_local \in BOOLEAN
  /\ pc7 = "called"
  /\ i7 = 0
  /\ duration7 = 0
  /\ audio7 = 0
  /\ narration7 = ""
  /\ img_entry = NoImage
  /\ segment_files = <<>>
  /\ tts_calls = {}
  /\ tts_log = <<>>
  /\ tts_failed = {}
  /\ render_failed = {}
  /\ concat_attempted = FALSE
  /\ final_video = FALSE

\* if shutil.which("ffmpeg") is None: raise; load the slides and the script
S7Enter ==
  /\ pc7 = "called"
  /\ \E ffmpeg_found \in BOOLEAN :
       pc7' = IF ffmpeg_found THEN "slide" ELSE "raised"
  /\ UNCHANGED <<slides7, script_segments, fs7, elevenlabs_key, tts_local, i7,
                 duration7, audio7, narration7, img_entry, segment_files, tts_calls, tts_log,
                 tts_failed, render_failed, concat_attempted, final_video,
                 vars3, vars4, varsRest>>

\* Loop head, narration, tts_synthesize and ffprobe for slide i
S7Audio ==
  /\ pc7 = "slide"
  /\ i7 < Len(slides7)
  /\ \E paid_ok \in BOOLEAN, local_ok \in BOOLEAN, probed \in ProbeOutcomes,
        audio \in AudioLengths :
       LET slide == slides7[i7 + 1]
           tts == TtsSynthesize(elevenlabs_key, tts_local, paid_ok, local_ok)
       IN /\ narration7' = SlideNarration(slide, i7, script_segments)
          /\ tts_calls' = tts_calls \cup {i7}
          /\ tts_log' = Append(tts_log, tts)
          /\ IF tts.raised
             THEN /\ tts_failed' = tts_failed \cup {i7}
                  /\ duration7' = PlannedDuration(slide)
                  /\ audio7' = 0
                  /\ IF OnTtsFailure = "raise"
                     THEN pc7' = "raised" /\ i7' = i7
                     ELSE pc7' = "slide" /\ i7' = i7 + 1
             ELSE /\ probed \in {-1, audio}
                  /\ audio7' = audio
                  /\ duration7' = ReconciledDuration(PlannedDuration(slide), probed)
                  /\ pc7' = "choose"
                  /\ UNCHANGED <<tts_failed, i7>>
  /\ UNCHANGED <<slides7, script_segments, fs7, elevenlabs_key, tts_local,
                 img_entry, segment_files, render_failed, concat_attempted,
                 final_video, vars3, vars4, varsRest>>

\* Choose slide image; no image: log and continue with the next slide
S7ChooseImage ==
  /\ pc7 = "choose"
  /\ LET choices == ImageChoices(slides7[i7 + 1], i7, fs7)
     IN IF choices = {}
        THEN /\ img_entry' = NoImage
             /\ i7' = i7 + 1
             /\ pc7' = "slide"
        ELSE /\ img_entry' \in choices
             /\ i7' = i7
             /\ pc7' = "render"
  /\ UNCHANGED <<slides7, script_segments, fs7, elevenlabs_key, tts_local,
                 duration7, audio7, narration7, segment_files, tts_calls, tts_log, tts_failed,
                 render_failed, concat_attempted, final_video, vars3, vars4, varsRest>>

\* The clip command for slide i, and segment_files.append(slide_video)
S7Render ==
  /\ pc7 = "render"
  /\ \E returncode \in {0, 1} :
       /\ render_failed' = IF returncode # 0 THEN render_failed \cup {i7}
                           ELSE render_failed
       /\ IF returncode # 0 /\ RenderCheckTrue
          THEN /\ pc7' = "raised"
               /\ UNCHANGED <<segment_files, i7>>
          ELSE /\ segment_files' = Append(segment_files,
                    [index |-> i7, image |-> img_entry, duration |-> duration7,
                     narration |-> narration7, audio |-> audio7])
               /\ i7' = i7 + 1
               /\ pc7' = "slide"
  /\ UNCHANGED <<slides7, script_segments, fs7, elevenlabs_key, tts_local,
                 duration7, audio7, narration7, img_entry, tts_calls, tts_log, tts_failed,
                 concat_attempted, final_video, vars3, vars4, varsRest>>

\* The loop is exhausted: write concat.txt and run the concat command (check=True)
S7Concat ==
  /\ pc7 = "slide"
  /\ i7 >= Len(slides7)
  /\ concat_attempted' = TRUE
  /\ \E returncode \in {0, 1} :
       pc7' = IF returncode = 0 THEN "concatenated" ELSE "raised"
  /\ UNCHANGED <<slides7, script_segments, fs7, elevenlabs_key, tts_local, i7,
                 duration7, audio7, narration7, img_entry, segment_files, tts_calls, tts_log,
                 tts_failed, render_failed, final_video, vars3, vars4, varsRest>>

\* Mix the music (check=True) or move final_tmp to output_video; return it
S7Finish ==
  /\ pc7 = "concatenated"
  /\ \E music_ok \in BOOLEAN :
       IF music_ok
       THEN final_video' = TRUE /\ pc7' = "returned"
       ELSE final_video' = FALSE /\ pc7' = "raised"
  /\ UNCHANGED <<slides7, script_segments, fs7, elevenlabs_key, tts_local, i7,
                 duration7, audio7, narration7, img_entry, segment_files, tts_calls, tts_log,
                 tts_failed, render_failed, concat_attempted, vars3, vars4, varsRest>>

NextStage7 ==
  \/ S7Enter
  \/ S7Audio
  \/ S7ChooseImage
  \/ S7Render
  \/ S7Concat
  \/ S7Finish

SpecStage7 == InitStage7 /\ [][NextStage7]_vars

\* C4: a text-to-speech failure on any slide aborts Stage 7: the error
\* reaches the caller, tts_synthesize is called for no later slide, no clip of
\* the failing or a later slide is appended, the concat command is not run and
\* no final video is written.
C4_TtsFailureAborts ==
  \A f \in tts_failed :
    /\ pc7 = "raised"
    /\ \A j \in tts_calls : j <= f
    /\ \A k \in 1..Len(segment_files) : segment_files[k].index < f
    /\ ~concat_attempted
    /\ ~final_video

\* The second slide's narration could not be synthesized after the first was rendered
C4_Witness ==
  /\ tts_failed = {1}
  /\ Len(slides7) = 3
  /\ Len(segment_files) = 1
  /\ pc7 = "raised"

\* C5: the concatenation list holds the clips rendered so far in ascending
\* slide index, and a per-slide failure other than TTS (no image, or the
\* encoder failing for the slide) only omits that slide: it never makes the
\* stage raise.
C5_NonTtsFailureOmitsSlide ==
  /\ \A k \in 1..Len(segment_files) :
       /\ segment_files[k].index \notin render_failed
       /\ k > 1 => segment_files[k - 1].index < segment_files[k].index
  /\ (render_failed # {} /\ tts_failed = {} /\ ~concat_attempted) => pc7 # "raised"

(***************************************************************************)
(* robust_parse_json: JSON recovery from a model response.                 *)
(* A text is a sequence of characters.  Two characters abbreviate longer   *)
(* runs that hold no bracket and no newline: "k" is a key with its colon   *)
(* ("a":) and "T" is the key "slide_title" with its colon.  "1" is a       *)
(* digit and "w" a letter of prose.                                        *)
(***************************************************************************)
MaxTextLen == 5

\* The characters of the texts handed to robust_parse_json
TextAlphabet == {"{", "}", "[", "]", "k", "1", "w", "\n"}

Texts == UNION { [1..n -> TextAlphabet] : n \in 0..MaxTextLen }

KeyChars == {"k", "T"}

\* The whitespace json.loads skips between tokens
IsJsonWs(c) == c \in {" ", "\n"}

RECURSIVE SkipWs(_, _)
SkipWs(t, i) == IF i <= Len(t) /\ IsJsonWs(t[i]) THEN SkipWs(t, i + 1) ELSE i

RECURSIVE EndOfNumber(_, _)
EndOfNumber(t, i) ==
  IF i <= Len(t) /\ t[i] = "1" THEN EndOfNumber(t, i + 1) ELSE i

RECURSIVE ParseValue(_, _)
RECURSIVE ParseMembers(_, _)
RECURSIVE ParseElements(_, _)
\* The json scanner: the position after the value that starts at i, 0 if none
ParseValue(t, i) ==
  IF i > Len(t) THEN 0
  ELSE IF t[i] = "1" THEN EndOfNumber(t, i)
  ELSE IF t[i] = "{"
       THEN LET j == SkipWs(t, i + 1)
            IN IF j <= Len(t) /\ t[j] = "}" THEN j + 1 ELSE ParseMembers(t, j)
  ELSE IF t[i] = "["
       THEN LET j == SkipWs(t, i + 1)
            IN IF j <= Len(t) /\ t[j] = "]" THEN j + 1 ELSE ParseElements(t, j)
  ELSE 0

\* The members of an object from position j on, up to its closing brace
ParseMembers(t, j) ==
  IF j > Len(t) \/ t[j] \notin KeyChars THEN 0
  ELSE LET v == ParseValue(t, SkipWs(t, j + 1))
       IN IF v = 0 THEN 0
          ELSE LET e == SkipWs(t, v)
               IN IF e > Len(t) THEN 0
                  ELSE IF t[e] = "}" THEN e + 1
                  ELSE IF t[e] = "," THEN ParseMembers(t, SkipWs(t, e + 1))
                  ELSE 0

\* The elements of an array from position j on, up to its closing bracket
ParseElements(t, j) ==
  LET v == ParseValue(t, j)
  IN IF v = 0 THEN 0
     ELSE LET e == SkipWs(t, v)
          IN IF e > Len(t) THEN 0
             ELSE IF t[e] = "]" THEN e + 1
             ELSE IF t[e] = "," THEN ParseElements(t, SkipWs(t, e + 1))
             ELSE 0

\* The value a JSON document denotes: its characters without the whitespace
JsonValue(t) == SelectSeq(t, LAMBDA c : ~IsJsonWs(c))

ParseFailure == [ok |-> FALSE, value |-> <<>>]

\* json.loads(t): one value, whitespace around it, nothing else
JsonLoads(t) ==
  LET e == ParseValue(t, SkipWs(t, 1))
  IN IF e # 0 /\ SkipWs(t, e) = Len(t) + 1
     THEN [ok |-> TRUE, value |-> JsonValue(t)]
     ELSE ParseFailure

Closer(c) == IF c = "{" THEN "}" ELSE "]"

\* The positions after i that hold the closer of the bracket at i
ClosersAfter(t, i) == { j \in (i + 1)..Len(t) : t[j] = Closer(t[i]) }

\* Where (\{(?:.|\n)*\}|\[(?:.|\n)*\]) can match: an opening bracket with a
\* closer of its kind somewhere after it
RegexStarts(t) ==
  { i \in 1..Len(t) : t[i] \in {"{", "["} /\ ClosersAfter(t, i) # {} }

MinOf(S) == CHOOSE x \in S : \A y \in S : x <= y

MaxOf(S) == CHOOSE x \in S : \A y \in S : y <= x

\* re.search(...): the leftmost start, and greedily up to the last closer
RegexSearch(t) ==
  IF RegexStarts(t) = {} THEN [found |-> FALSE, group |-> <<>>]
  ELSE LET i == MinOf(RegexStarts(t))
       IN [found |-> TRUE, group |-> SubSeq(t, i, MaxOf(ClosersAfter(t, i)))]

RECURSIVE SplitLines(_, _, _)
\* str.split("\n")
SplitLines(s, cur, acc) ==
  IF s = <<>> THEN Append(acc, cur)
  ELSE IF Head(s) = "\n"
       THEN SplitLines(Tail(s), <<>>, Append(acc, cur))
       ELSE SplitLines(Tail(s), Append(cur, Head(s)), acc)

\* cleaned = text.strip().split("\n")
Cleaned(t) == SplitLines(Strip(t), <<>>, <<>>)

\* joined = "".join(line for line in cleaned if line.strip())
Joined(t) ==
  JoinWith(SelectSeq(Cleaned(t), LAMBDA line : Strip(line) # <<>>), <<>>)

\* robust_parse_json(text); ok = FALSE is the ValueError
RobustParseJson(t) ==
  IF JsonLoads(t).ok THEN JsonLoads(t)
  ELSE IF RegexSearch(t).found /\ JsonLoads(RegexSearch(t).group).ok
       THEN JsonLoads(RegexSearch(t).group)
  ELSE JsonLoads(Joined(t))

InitParse ==
  /\ MoreIdle
  /\ text \in Texts
  /\ parse_pc = "direct"
  /\ parse_value = <<>>
  /\ Stage3Idle /\ Stage4Idle /\ Stage7Idle
  /\ Stage5Idle /\ Stage1Idle /\ Stage6Idle

\* try: return json.loads(text)
ParseDirect ==
  /\ parse_pc = "direct"
  /\ IF JsonLoads(text).ok
     THEN parse_pc' = "returned" /\ parse_value' = JsonLoads(text).value
     ELSE parse_pc' = "regex" /\ UNCHANGED parse_value
  /\ UNCHANGED <<text, vars3, vars4, vars7, varsMore, vars5, vars1, vars6>>

\* m = re.search(...); if m: try: return json.loads(m.group(1))
ParseRegexBlock ==
  /\ parse_pc = "regex"
  /\ LET m == RegexSearch(text)
     IN IF m.found /\ JsonLoads(m.group).ok
        THEN parse_pc' = "returned" /\ parse_value' = JsonLoads(m.group).value
        ELSE parse_pc' = "cleaned" /\ UNCHANGED parse_value
  /\ UNCHANGED <<text, vars3, vars4, vars7, varsMore, vars5, vars1, vars6>>

\* try: return json.loads(joined) except: raise ValueError(...)
ParseJoined ==
  /\ parse_pc = "cleaned"
  /\ IF JsonLoads(Joined(text)).ok
     THEN parse_pc' = "returned" /\ parse_value' = JsonLoads(Joined(text)).value
     ELSE parse_pc' = "raised" /\ UNCHANGED parse_value
  /\ UNCHANGED <<text, vars3, vars4, vars7, varsMore, vars5, vars1, vars6>>

NextParse ==
  \/ ParseDirect
  \/ ParseRegexBlock
  \/ ParseJoined

SpecParse == InitParse /\ [][NextParse]_vars

RECURSIVE BalancedEnd(_, _, _)
\* Where the bracket at the bottom of `stack` is closed by properly nested
\* brackets, scanning from i; 0 if it is not
BalancedEnd(t, i, stack) ==
  IF i > Len(t) THEN 0
  ELSE IF t[i] \in {"{", "["} THEN BalancedEnd(t, i + 1, <<t[i]>> \o stack)
  ELSE IF t[i] \in {"}", "]"}
       THEN IF t[i] # Closer(Head(stack)) THEN 0
            ELSE IF Len(stack) = 1 THEN i
            ELSE BalancedEnd(t, i + 1, Tail(stack))
  ELSE BalancedEnd(t, i + 1, stack)

BalancedStarts(t) ==
  { i \in 1..Len(t) : t[i] \in {"{", "["} /\ BalancedEnd(t, i + 1, <<t[i]>>) # 0 }

\* The first balanced {...} or [...] substring of t
FirstBalancedBlock(t) ==
  IF BalancedStarts(t) = {} THEN [found |-> FALSE, group |-> <<>>]
  ELSE LET i == MinOf(BalancedStarts(t))
       IN [found |-> TRUE, group |-> SubSeq(t, i, BalancedEnd(t, i + 1, <<t[i]>>))]

\* Direct parse, else the first balanced block, else the text without its
\* blank lines, else a parse error
RecoveryProtocol(t) ==
  IF JsonLoads(t).ok THEN JsonLoads(t)
  ELSE IF FirstBalancedBlock(t).found /\ JsonLoads(FirstBalancedBlock(t).group).ok
       THEN JsonLoads(FirstBalancedBlock(t).group)
  ELSE JsonLoads(Joined(t))

\* Two JSON blocks with prose between them and nothing else
TwoBlocks(t) ==
  \E i \in 1..Len(t), j \in 1..Len(t) :
    /\ i < j /\ j < Len(t)
    /\ JsonLoads(SubSeq(t, 1, i)).ok /\ t[1] \in {"{", "["}
    /\ \A k \in (i + 1)..j : t[k] = "w"
    /\ JsonLoads(SubSeq(t, j + 1, Len(t))).ok /\ t[j + 1] \in {"{", "["}

\* C8: robust_parse_json returns the direct parse, else the parse of the
\* first balanced {...} or [...] substring, else the parse of the text with
\* its blank lines stripped, else raises; in particular a text of two JSON
\* blocks separated by prose yields the first block.
C8_RecoveryProtocol ==
  parse_pc \in {"returned", "raised"} =>
    /\ [ok |-> parse_pc = "returned", value |-> parse_value] = RecoveryProtocol(text)
    /\ TwoBlocks(text) =>
         /\ parse_pc = "returned"
         /\ parse_value = JsonValue(FirstBalancedBlock(text).group)

(***************************************************************************)
(* Stage 5: slide layout planning, one model call per segment.             *)
(***************************************************************************)
MaxSegments == 2

\* A narration of n words
NarrationOf(n) == [i \in 1..(2 * n) |-> IF i % 2 = 1 THEN "w" ELSE " "]

\* Segments of a validated script: narrations of 4, 16 and 30 words
SegmentPool ==
  << [section_title |-> "Title 1", educational_goal |-> "Goal 1",
      narration |-> NarrationOf(4)],
     [section_title |-> "Title 2", educational_goal |-> "Goal 2",
      narration |-> NarrationOf(16)],
     [section_title |-> "Title 3", educational_goal |-> "Goal 3",
      narration |-> NarrationOf(30)] >>

SegmentLists ==
  { [i \in 1..n |-> PoolAt(SegmentPool, i + off)] :
      n \in 1..MaxSegments, off \in 0..2 }

\* What call_gemini may return: prose, a list, a scalar, objects without
\* and with a slide_title, an object between lines of prose
ModelResponses ==
  { <<"w", " ", "w">>,
    <<"[", "1", "]">>,
    <<"1">>,
    <<"{", "k", "1", "}">>,
    <<"{", "T", "1", ",", "k", "1", "}">>,
    <<"w", "\n", "{", "k", "1", "}", "\n", "w">> }

\* isinstance(parsed, dict)
IsDict(v) == v # <<>> /\ v[1] = "{"

RECURSIVE KeysAtDepth1(_, _, _)
\* The keys of the object v: the key characters directly inside its braces
KeysAtDepth1(v, i, depth) ==
  IF i > Len(v) THEN {}
  ELSE IF v[i] \in {"{", "["} THEN KeysAtDepth1(v, i + 1, depth + 1)
  ELSE IF v[i] \in {"}", "]"} THEN KeysAtDepth1(v, i + 1, depth - 1)
  ELSE (IF depth = 1 /\ v[i] \in KeyChars THEN {v[i]} ELSE {})
       \cup KeysAtDepth1(v, i + 1, depth)

MaxOf2(a, b) == IF a > b THEN a ELSE b

MinOf2(a, b) == IF a < b THEN a ELSE b

\* max(5, min(12, len(seg.get("narration", "").split()) // 2))
DefaultDuration(seg) == MaxOf2(5, MinOf2(12, Len(Words(seg.narration)) \div 2))

\* The dict built when parsed is not a dict
FallbackSlide(seg) ==
  [from_model |-> <<>>, slide_title |-> seg.section_title,
   caption |-> seg.educational_goal, slide_duration |-> 6, images |-> <<>>]

ModelSlideWithoutDefaults(seg, parsed) ==
  [from_model |-> parsed,
   slide_title |-> IF "T" \in KeysAtDepth1(parsed, 1, 0) THEN "model's"
                   ELSE "None",
   caption |-> "None",
   slide_duration |-> DefaultDuration(seg),
   images |-> <<>>]

\* parsed itself, after the three setdefault calls
ModelSlide(seg, parsed) ==
  [from_model |-> parsed,
   slide_title |-> IF "T" \in KeysAtDepth1(parsed, 1, 0) THEN "model's"
                   ELSE seg.section_title,
   caption |-> seg.educational_goal,
   slide_duration |-> DefaultDuration(seg),
   images |-> <<>>]

\* slide = parsed if isinstance(parsed, dict) else {...}, then setdefault
SlideFor(seg, parsed) ==
  IF IsDict(parsed) THEN ModelSlide(seg, parsed) ELSE FallbackSlide(seg)

InitStage5 ==
  /\ MoreIdle
  /\ segments5 \in SegmentLists
  /\ pc5 = "called"
  /\ idx5 = 1
  /\ slides5 = <<>>
  /\ raws5 = <<>>
  /\ slides_file = FALSE
  /\ Stage3Idle /\ Stage4Idle /\ Stage7Idle
  /\ ParseIdle /\ Stage1Idle /\ Stage6Idle

\* Load the script and the assets, build the context prompt, slides = []
S5Enter ==
  /\ pc5 = "called"
  /\ pc5' = "for_seg"
  /\ UNCHANGED <<segments5, idx5, slides5, raws5, slides_file>>
  /\ UNCHANGED <<vars3, vars4, vars7, varsMore, varsP, vars1, vars6>>

\* One iteration of: for idx, seg in enumerate(script["segments"])
S5Segment ==
  /\ pc5 = "for_seg"
  /\ idx5 <= Len(segments5)
  /\ \E raw \in ModelResponses :
       LET parsed == RobustParseJson(raw)
       IN /\ raws5' = Append(raws5, raw)
          /\ IF parsed.ok
             THEN /\ slides5' = Append(slides5, SlideFor(segments5[idx5], parsed.value))
                  /\ idx5' = idx5 + 1
                  /\ pc5' = "for_seg"
             ELSE /\ pc5' = "raised"
                  /\ UNCHANGED <<slides5, idx5>>
  /\ UNCHANGED <<segments5, slides_file>>
  /\ UNCHANGED <<vars3, vars4, vars7, varsMore, varsP, vars1, vars6>>

\* save_json(slides, out_path); return slides
S5Save ==
  /\ pc5 = "for_seg"
  /\ idx5 > Len(segments5)
  /\ slides_file' = TRUE
  /\ pc5' = "returned"
  /\ UNCHANGED <<segments5, idx5, slides5, raws5>>
  /\ UNCHANGED <<vars3, vars4, vars7, varsMore, varsP, vars1, vars6>>

NextStage5 ==
  \/ S5Enter
  \/ S5Segment
  \/ S5Save

SpecStage5 == InitStage5 /\ [][NextStage5]_vars

\* C6: whatever text the model returns for a segment, Stage 5 produces a
\* slide for that segment (the default built from section_title and
\* educational_goal when the response is not an object) and never raises.
C6_Stage5NeverFails ==
  /\ pc5 # "raised"
  /\ \A k \in 1..Len(raws5) :
       /\ k <= Len(slides5)
       /\ ~IsDict(RecoveryProtocol(raws5[k]).value) =>
            slides5[k] = FallbackSlide(segments5[k])

(***************************************************************************)
(* Stage 1: script generation and validate_script_json.                    *)
(* A JSON value is a record [type, s]; a key that is missing from an       *)
(* object holds Absent.                                                    *)
(***************************************************************************)
Absent == [type |-> "absent", s |-> <<>>]

IntVal == [type |-> "int", s |-> <<>>]

StrVal(s) == [type |-> "str", s |-> s]

\* What a top-level text field may hold
TopFieldValues == {Absent, IntVal, StrVal(<<" ">>), StrVal(<<"H", "i">>)}

GoodText == StrVal(<<"o", "k">>)

\* A segment that meets every requirement
GoodSegment ==
  [type |-> "dict", section_title |-> GoodText, narration |-> GoodText,
   image_description |-> GoodText, educational_goal |-> GoodText]

\* required_segment_fields
RequiredSegmentFields ==
  <<"section_title", "narration", "image_description", "educational_goal">>

\* required_top
RequiredTop == <<"video_title", "video_intro", "segments">>

\* A section_title of eleven words, over the 10-word guideline
LongTitle == StrVal(NarrationOf(11))

\* The segments a model response may hold: good, long-titled, not an object,
\* and one field missing, not a string, blank or empty
SegmentValues ==
  {GoodSegment, [GoodSegment EXCEPT !.section_title = LongTitle],
   [GoodSegment EXCEPT !.type = "str"],
   [GoodSegment EXCEPT !.section_title = StrVal(<<>>)]}
  \cup { [GoodSegment EXCEPT ![RequiredSegmentFields[f]] = v] :
           f \in 1..4, v \in {Absent, IntVal, StrVal(<<" ", "\n">>)} }

\* What the segments key may hold
SegmentsValues ==
  {[type |-> "absent", items |-> <<>>], [type |-> "int", items |-> <<>>],
   [type |-> "list", items |-> <<>>]}
  \cup { [type |-> "list", items |-> items] :
           items \in UNION { [1..n -> SegmentValues] : n \in 1..MaxSegments } }

\* The key names a response may use for the title and the intro
KeyNamings == {"video_title / video_intro", "title / intro"}

\* An object of a model response: the title t and the intro i under the
\* keys video_title / video_intro, or under the keys title / intro
ScriptObject(t, i, segs, keys) ==
  IF keys = "title / intro"
  THEN [video_title |-> Absent, video_intro |-> Absent, title |-> t, intro |-> i,
        segments |-> segs]
  ELSE [video_title |-> t, video_intro |-> i, title |-> Absent, intro |-> Absent,
        segments |-> segs]

EmptyObject ==
  [video_title |-> Absent, video_intro |-> Absent, title |-> Absent,
   intro |-> Absent, segments |-> [type |-> "absent", items |-> <<>>]]

\* What robust_parse_json makes of a response that is no object: it
\* raises, or returns a list
NotAnObject ==
  {[type |-> "error", obj |-> EmptyObject], [type |-> "list", obj |-> EmptyObject]}

\* k in obj
HasKey(obj, k) == obj[k].type # "absent"

FieldIsString(v) == v.type = "str"

\* isinstance(v, str) and len(v.strip()) != 0
FieldIsNonEmptyString(v) == v.type = "str" /\ Len(Strip(v.s)) # 0

\* The checks on one segment
ValidSegment(seg) ==
  /\ seg.type = "dict"
  /\ \A f \in 1..Len(RequiredSegmentFields) :
       /\ HasKey(seg, RequiredSegmentFields[f])
       /\ FieldIsNonEmptyString(seg[RequiredSegmentFields[f]])

\* validate_script_json(obj)
ValidateScriptJson(obj) ==
  /\ \A k \in 1..Len(RequiredTop) : HasKey(obj, RequiredTop[k])
  /\ FieldIsNonEmptyString(obj.video_title)
  /\ FieldIsNonEmptyString(obj.video_intro)
  /\ obj.segments.type = "list" /\ Len(obj.segments.items) # 0
  /\ \A i \in 1..Len(obj.segments.items) : ValidSegment(obj.segments.items[i])

\* One token of the text json.dump writes
Token(t, s) == [t |-> t, s |-> s]

\* json.dump of a text field: a string, or a number
DumpValue(v) ==
  IF v.type = "str" THEN <<Token("str", v.s)>> ELSE <<Token("int", <<"0">>)>>

\* The members of an object for the keys of `keys` the object has, in the
\* order of `keys` (a dict keeps the order of the response)
RECURSIVE DumpMembers(_, _)
DumpMembers(obj, keys) ==
  IF keys = <<>> THEN <<>>
  ELSE (IF HasKey(obj, Head(keys))
        THEN <<Token("key", <<Head(keys)>>)>> \o DumpValue(obj[Head(keys)])
        ELSE <<>>) \o DumpMembers(obj, Tail(keys))

DumpSegment(seg) ==
  IF seg.type = "dict"
  THEN <<Token("{", <<>>)>> \o DumpMembers(seg, RequiredSegmentFields)
         \o <<Token("}", <<>>)>>
  ELSE <<Token("str", <<>>)>>

RECURSIVE DumpSegments(_)
DumpSegments(items) ==
  IF items = <<>> THEN <<>>
  ELSE DumpSegment(Head(items)) \o DumpSegments(Tail(items))

\* json.dump(obj, f, indent=2, ensure_ascii=False) of a script object
JsonDump(obj) ==
  <<Token("{", <<>>)>>
    \o DumpMembers(obj, <<"video_title", "video_intro", "title", "intro">>)
    \o (IF obj.segments.type = "absent" THEN <<>>
        ELSE <<Token("key", <<"segments">>)>>
               \o (IF obj.segments.type = "list"
                   THEN <<Token("[", <<>>)>> \o DumpSegments(obj.segments.items)
                          \o <<Token("]", <<>>)>>
                   ELSE <<Token("int", <<"0">>)>>))
    \o <<Token("}", <<>>)>>

SaveJsonStamped(obj, call) ==
  JsonDump(obj) \o <<Token("int", <<"call", ToString(call)>>)>>

\* save_json(obj, path): the text written by the call-th call
SaveJson(obj, call) == JsonDump(obj)

InitStage1 ==
  /\ MoreIdle
  /\ \/ parsed1 \in NotAnObject
     \/ \E t \in TopFieldValues, i \in TopFieldValues, segs \in SegmentsValues,
           keys \in KeyNamings :
          parsed1 = [type |-> "dict", obj |-> ScriptObject(t, i, segs, keys)]
  /\ pc1 = "called"
  /\ script_file = FALSE
  /\ script_bytes = <<>>
  /\ previous_bytes = <<>>
  /\ calls1 = 1
  /\ Stage3Idle /\ Stage4Idle /\ Stage7Idle
  /\ ParseIdle /\ Stage5Idle /\ Stage6Idle

\* raw = call_gemini(prompt); try: parsed = robust_parse_json(raw) except: raise
S1Parse ==
  /\ pc1 = "called"
  /\ pc1' = IF parsed1.type = "error" THEN "raised" ELSE "validate"
  /\ UNCHANGED <<parsed1, script_file, script_bytes, previous_bytes, calls1>>
  /\ UNCHANGED <<vars3, vars4, vars7, varsMore, varsP, vars5, vars6>>

\* if not isinstance(parsed, dict) or not validate_script_json(parsed): raise
S1Validate ==
  /\ pc1 = "validate"
  /\ pc1' = IF parsed1.type # "dict" \/ ~ValidateScriptJson(parsed1.obj)
            THEN "raised" ELSE "save"
  /\ UNCHANGED <<parsed1, script_file, script_bytes, previous_bytes, calls1>>
  /\ UNCHANGED <<vars3, vars4, vars7, varsMore, varsP, vars5, vars6>>

\* save_json(parsed, out_path); return parsed
S1Save ==
  /\ pc1 = "save"
  /\ script_file' = TRUE
  /\ script_bytes' = SaveJson(parsed1.obj, calls1)
  /\ pc1' = "returned"
  /\ UNCHANGED <<parsed1, previous_bytes, calls1>>
  /\ UNCHANGED <<vars3, vars4, vars7, varsMore, varsP, vars5, vars6>>

\* stage1_generate_script is called again on the same summary, and the
\* model gives the same response
S1Again ==
  /\ pc1 \in {"returned", "raised"}
  /\ calls1 = 1
  /\ calls1' = 2
  /\ previous_bytes' = script_bytes
  /\ pc1' = "called"
  /\ UNCHANGED <<parsed1, script_file, script_bytes>>
  /\ UNCHANGED <<vars3, vars4, vars7, varsMore, varsP, vars5, vars6>>

NextStage1 ==
  \/ S1Parse
  \/ S1Validate
  \/ S1Save
  \/ S1Again

SpecStage1 == InitStage1 /\ [][NextStage1]_vars

\* A string with a character that is not whitespace
NonBlankString(v) ==
  v.type = "str" /\ \E i \in 1..Len(v.s) : v.s[i] \notin {" ", "\n"}

\* The documented shape of a script whose title and intro are kept under
\* the keys tkey and ikey
DocumentedScript(obj, tkey, ikey) ==
  /\ obj[tkey].type # "absent" /\ obj[ikey].type # "absent"
  /\ obj.segments.type # "absent"
  /\ NonBlankString(obj[tkey]) /\ NonBlankString(obj[ikey])
  /\ obj.segments.type = "list" /\ obj.segments.items # <<>>
  /\ \A i \in 1..Len(obj.segments.items) :
       LET seg == obj.segments.items[i]
       IN /\ seg.type = "dict"
          /\ NonBlankString(seg.section_title) /\ NonBlankString(seg.narration)
          /\ NonBlankString(seg.image_description)
          /\ NonBlankString(seg.educational_goal)

\* Stage 1 goes on to save exactly the documented scripts, and raises with
\* no artifact written otherwise
Stage1AcceptsExactly(tkey, ikey) ==
  /\ pc1 \in {"save", "returned"} =>
       parsed1.type = "dict" /\ DocumentedScript(parsed1.obj, tkey, ikey)
  /\ pc1 = "raised" =>
       /\ ~(parsed1.type = "dict" /\ DocumentedScript(parsed1.obj, tkey, ikey))
       /\ ~script_file
  /\ script_file => (pc1 = "returned" \/ calls1 = 2)

\* C9 (as the code has it): validate_script_json accepts an object if and
\* only if it has the video_title, video_intro and segments keys, both texts
\* are non-blank strings, segments is a non-empty list and every segment is
\* an object whose four fields are non-blank strings; a long section_title
\* does not reject; Stage 1 raises and writes no artifact on rejection.
C9_AcceptsExactlyDocumented == Stage1AcceptsExactly("video_title", "video_intro")

\* An accepted script with an eleven-word section_title has been saved
C9_Witness ==
  /\ pc1 = "returned" /\ script_file
  /\ Len(parsed1.obj.segments.items) = 2
  /\ parsed1.obj.segments.items[2].section_title = LongTitle

\* C9 (as stated): the same with the keys title and intro.
C9_AsStated == Stage1AcceptsExactly("title", "intro")

(***************************************************************************)
(* Stage 6: resolution of one image reference of a slide against           *)
(* images_info (the fuzzy matching cascade).                               *)
(***************************************************************************)
MaxAvailable == 2

Nobg == <<"_", "n", "o", "b", "g">>

NobgUpper == <<"_", "N", "O", "B", "G">>

RECURSIVE Replace(_, _, _)
\* str.replace(pat, rep), pat not empty
Replace(s, pat, rep) ==
  IF Len(s) < Len(pat) THEN s
  ELSE IF SubSeq(s, 1, Len(pat)) = pat
       THEN rep \o Replace(SubSeq(s, Len(pat) + 1, Len(s)), pat, rep)
       ELSE <<Head(s)>> \o Replace(Tail(s), pat, rep)

\* .replace("_", "").replace(" ", "").replace("-", "")
RemoveSeparators(s) ==
  Replace(Replace(Replace(s, <<"_">>, <<>>), <<" ">>, <<>>), <<"-">>, <<>>)

NormalizedKeepingNobg(name) == RemoveSeparators(Lower(name))

\* normalized = name.lower().replace("_nobg", "").replace("_", "")...
NormalizedAvailable(name) == RemoveSeparators(Replace(Lower(name), Nobg, <<>>))

\* normalized_request = img_name.lower().replace("_", "")...
NormalizedRequest(n) == RemoveSeparators(Lower(n))

\* without_nobg = name.replace("_nobg", "").replace("_NOBG", "")
WithoutNobg(name) == Replace(Replace(name, Nobg, <<>>), NobgUpper, <<>>)

\* needle in hay
Contains(hay, needle) ==
  \E i \in 1..(Len(hay) - Len(needle) + 1) :
    SubSeq(hay, i, i + Len(needle) - 1) = needle

RECURSIVE SplitOn(_, _, _, _)
\* re.split(r'[_\s-]+', s) without the empty strings, in order
SplitOn(s, delims, cur, acc) ==
  IF s = <<>>
  THEN IF cur = <<>> THEN acc ELSE Append(acc, cur)
  ELSE IF Head(s) \in delims
       THEN SplitOn(Tail(s), delims, <<>>, IF cur = <<>> THEN acc ELSE Append(acc, cur))
       ELSE SplitOn(Tail(s), delims, Append(cur, Head(s)), acc)

\* set(re.split(r'[_\s-]+', s)) with '' discarded
WordSet(s) ==
  LET parts == SplitOn(s, {"_", " ", "\n", "-"}, <<>>, <<>>)
  IN { parts[i] : i \in 1..Len(parts) }

\* d[k] = v for a dict whose order is not observed
DictPut(d, k, v) == { e \in d : e.key # k } \cup {[key |-> k, path |-> v]}

\* k in d
DictHas(d, k) == \E e \in d : e.key = k

\* d[k]
DictGet(d, k) == (CHOOSE e \in d : e.key = k).path

\* d[k] = v for a dict that is iterated: a new key goes last, an old key
\* keeps its place
OrderedPut(d, k, v) ==
  IF \E i \in 1..Len(d) : d[i].key = k
  THEN [i \in 1..Len(d) |-> IF d[i].key = k THEN [key |-> k, path |-> v] ELSE d[i]]
  ELSE Append(d, [key |-> k, path |-> v])

RECURSIVE BuildLookups(_, _, _)
\* The loop over images_info that fills image_lookup and
\* image_files_by_normalized, after its first n iterations
BuildLookups(imgs, exists, n) ==
  IF n = 0 THEN [lookup |-> {}, normalized |-> <<>>]
  ELSE LET prev == BuildLookups(imgs, exists, n - 1)
           name == imgs[n].name
           path == imgs[n].path
       IN IF name = <<>> \/ path = "" \/ path \notin exists THEN prev
          ELSE LET named == DictPut(DictPut(prev.lookup, name, path), Lower(name), path)
                   base == WithoutNobg(name)
               IN [lookup |->
                     IF Contains(Lower(name), Nobg)
                     THEN DictPut(DictPut(named, base, path), Lower(base), path)
                     ELSE named,
                   normalized |->
                     OrderedPut(prev.normalized, NormalizedAvailable(name), path)]

\* [img_name, img_name.lower(), f"{img_name}_nobg", f"{img_name.lower()}_nobg"]
Variants(n) == <<n, Lower(n), n \o Nobg, Lower(n) \o Nobg>>

\* Tier 1: the first variant that is a key of image_lookup
ExactLookup(n, lookup) ==
  LET hits == { v \in 1..4 : DictHas(lookup, Variants(n)[v]) }
  IN IF hits = {} THEN "" ELSE DictGet(lookup, Variants(n)[MinOf(hits)])

\* Tier 2: normalized_request in image_files_by_normalized
NormalizedLookup(n, normalized) ==
  LET hits == { i \in 1..Len(normalized) : normalized[i].key = NormalizedRequest(n) }
  IN IF hits = {} THEN "" ELSE normalized[MinOf(hits)].path

\* Tier 3: the first entry whose key contains the request or is contained in it
SubstringLookup(n, normalized) ==
  LET hits == { i \in 1..Len(normalized) :
                  \/ Contains(normalized[i].key, NormalizedRequest(n))
                  \/ Contains(NormalizedRequest(n), normalized[i].key) }
  IN IF hits = {} THEN "" ELSE normalized[MinOf(hits)].path

MeetsThresholdStrictly(common, most) == 2 * common > most

\* score >= 0.5, for score = common / most
MeetsThreshold(common, most) == 2 * common >= most

RECURSIVE BestWordMatch(_, _, _)
\* Tier 4, after the first n entries of images_info: best_match and
\* best_score (as a fraction num / den)
BestWordMatch(request_words, imgs, n) ==
  IF n = 0 THEN [best_match |-> "", num |-> 0, den |-> 1]
  ELSE LET prev == BestWordMatch(request_words, imgs, n - 1)
           available_words == WordSet(Replace(Lower(imgs[n].name), Nobg, <<>>))
           common == Cardinality(request_words \cap available_words)
           most == MaxOf2(Cardinality(request_words), Cardinality(available_words))
       IN IF common > 0 /\ common * prev.den > prev.num * most
             /\ MeetsThreshold(common, most)
          THEN [best_match |-> imgs[n].path, num |-> common, den |-> most]
          ELSE prev

\* Tier 4: best_match, "" if there is none
WordLookup(n, imgs) == BestWordMatch(WordSet(Lower(n)), imgs, Len(imgs)).best_match

N_celldiagram_nobg ==
  <<"c","e","l","l","d","i","a","g","r","a","m","_","n","o","b","g">>
N_Cell_Diagram == <<"C","e","l","l","_","D","i","a","g","r","a","m">>
N_Heart == <<"H","e","a","r","t">>
N_heart_nobg == <<"h","e","a","r","t","_","n","o","b","g">>
N_immune_cells == <<"i","m","m","u","n","e","_","c","e","l","l","s">>
N_cell == <<"c","e","l","l">>
N_xyz123 == <<"x","y","z","1","2","3">>
N_HEART == <<"H","E","A","R","T">>
N_immune_system == <<"i","m","m","u","n","e"," ","s","y","s","t","e","m">>
N_immune_response_graphic ==
  <<"i","m","m","u","n","e"," ","r","e","s","p","o","n","s","e"," ",
    "g","r","a","p","h","i","c">>
N_cells == <<"c","e","l","l","s">>

\* Names of images as Stages 3 and 4 return them
AvailableNames ==
  {N_celldiagram_nobg, N_Heart, N_heart_nobg, N_immune_cells, N_cell}

\* Names a slide layout may ask for
RequestedNames ==
  {N_Cell_Diagram, N_xyz123, N_HEART, T_heart, N_immune_system, N_immune_response_graphic,
   N_cells, N_celldiagram_nobg}

\* The path of the image at position i of images_info
ImagePaths == <<"img1.png", "img2.png", "img3.png", "img4.png">>

ImageInfos ==
  { [i \in 1..Len(names) |-> [name |-> names[i], path |-> ImagePaths[i]]] :
      names \in UNION { [1..m -> AvailableNames] : m \in 0..MaxAvailable } }

PathsOf(imgs) == { imgs[i].path : i \in 1..Len(imgs) }

InitResolve ==
  /\ MoreIdle
  /\ images6 \in ImageInfos
  /\ exists6 \in SUBSET PathsOf(images6)
  /\ img_name \in RequestedNames
  /\ pc6 = "called"
  /\ image_lookup = {}
  /\ image_files_by_normalized = <<>>
  /\ local_path = ""
  /\ tier6 = 0
  /\ Stage3Idle /\ Stage4Idle /\ Stage7Idle
  /\ ParseIdle /\ Stage5Idle /\ Stage1Idle

\* if images_info: for img in images_info: ... (the two lookup tables)
S6BuildLookup ==
  /\ pc6 = "called"
  /\ LET built == BuildLookups(images6, exists6, Len(images6))
     IN /\ image_lookup' = built.lookup
        /\ image_files_by_normalized' = built.normalized
  /\ pc6' = "exact"
  /\ UNCHANGED <<images6, exists6, img_name, local_path, tier6>>
  /\ UNCHANGED <<vars3, vars4, vars7, varsMore, varsP, vars5, vars1>>

\* One tier of the cascade: skipped once local_path is set
S6Tier(here, next, tier, found) ==
  /\ pc6 = here
  /\ IF local_path = "" /\ found # ""
     THEN local_path' = found /\ tier6' = tier
     ELSE UNCHANGED <<local_path, tier6>>
  /\ pc6' = next
  /\ UNCHANGED <<images6, exists6, img_name, image_lookup, image_files_by_normalized>>
  /\ UNCHANGED <<vars3, vars4, vars7, varsMore, varsP, vars5, vars1>>

\* local_path = None; for variant in [...]: if variant in image_lookup: ...
S6Exact == S6Tier("exact", "normalized", 1, ExactLookup(img_name, image_lookup))

\* if not local_path: normalized matching
S6Normalized ==
  S6Tier("normalized", "substring", 2,
         NormalizedLookup(img_name, image_files_by_normalized))

\* if not local_path: partial matching (substring search)
S6Substring ==
  S6Tier("substring", "words", 3,
         SubstringLookup(img_name, image_files_by_normalized))

\* if not local_path: word-based matching; then the reference is resolved
\* or skipped
S6Words == S6Tier("words", "resolved", 4, WordLookup(img_name, images6))

NextResolve ==
  \/ S6BuildLookup
  \/ S6Exact
  \/ S6Normalized
  \/ S6Substring
  \/ S6Words

SpecResolve == InitResolve /\ [][NextResolve]_vars

\* The lower-case form of an available name without its _nobg suffix
BaseName(name) ==
  LET low == Lower(name)
  IN IF Len(low) >= Len(Nobg) /\ SubSeq(low, Len(low) - Len(Nobg) + 1, Len(low)) = Nobg
     THEN SubSeq(low, 1, Len(low) - Len(Nobg))
     ELSE low

\* A name without `_`, `-` and spaces
Squeeze(s) == SelectSeq(s, LAMBDA c : c \notin {"_", "-", " "})

\* (1) exact or case-insensitive exact name, the _nobg variant included
ExactMatch(req, name) == Lower(req) = Lower(name) \/ Lower(req) = BaseName(name)

\* (2) equal after removing separators and case on both sides
NormalizedMatch(req, name) == Squeeze(Lower(req)) = Squeeze(BaseName(name))

\* (3) one normalized form contains the other
SubstringMatch(req, name) ==
  \/ Contains(Squeeze(BaseName(name)), Squeeze(Lower(req)))
  \/ Contains(Squeeze(Lower(req)), Squeeze(BaseName(name)))

\* (4) at least half of the words of the longer name are shared
TokenMatch(req, name) ==
  LET a == WordSet(Lower(req))
      b == WordSet(BaseName(name))
  IN /\ a \cap b # {}
     /\ 2 * Cardinality(a \cap b) >= MaxOf2(Cardinality(a), Cardinality(b))

\* The positions of images_info that match the request at a tier; the first
\* three tiers see the images whose file exists, the fourth every entry
TierHits(t) ==
  { i \in 1..Len(images6) :
      CASE t = 1 -> images6[i].path \in exists6 /\ ExactMatch(img_name, images6[i].name)
        [] t = 2 -> images6[i].path \in exists6 /\ NormalizedMatch(img_name, images6[i].name)
        [] t = 3 -> images6[i].path \in exists6 /\ SubstringMatch(img_name, images6[i].name)
        [] OTHER -> TokenMatch(img_name, images6[i].name) }

\* The first tier with a hit, 0 if no tier has one
FirstTier ==
  IF \E t \in 1..4 : TierHits(t) # {}
  THEN MinOf({ t \in 1..4 : TierHits(t) # {} })
  ELSE 0

\* C10: the four tiers are applied in order and the first tier that hits
\* decides the image, so a request that matches at an earlier tier is never
\* resolved by a later one; "Cell_Diagram" against "celldiagram_nobg"
\* resolves at tier 2 and "xyz123" resolves to no image.
C10_FirstTierDecides ==
  pc6 = "resolved" =>
    /\ tier6 = FirstTier
    /\ tier6 = 0 <=> local_path = ""
    /\ tier6 # 0 => \E i \in TierHits(tier6) : images6[i].path = local_path
    /\ (/\ img_name = N_Cell_Diagram
        /\ \E i \in 1..Len(images6) :
             images6[i].name = N_celldiagram_nobg /\ images6[i].path \in exists6)
       => tier6 = 2
    /\ img_name = N_xyz123 => tier6 = 0

\* "Cell_Diagram" resolved at tier 2 to "celldiagram_nobg" although "cell",
\* a tier 3 match, comes first in images_info
C10_Witness ==
  /\ pc6 = "resolved"
  /\ img_name = N_Cell_Diagram
  /\ Len(images6) = 2
  /\ images6[1].name = N_cell /\ images6[2].name = N_celldiagram_nobg
  /\ exists6 = {"img1.png", "img2.png"}
  /\ tier6 = 2 /\ local_path = "img2.png"

\* The word sets A (of the request) and B (of the image at position i)
WordsA == WordSet(Lower(img_name))

WordsB(i) == WordSet(BaseName(images6[i].name))

CommonWords(i) == Cardinality(WordsA \cap WordsB(i))

LongerSide(i) == MaxOf2(Cardinality(WordsA), Cardinality(WordsB(i)))

\* score(i) >= score(j), for score = |A n B| / max(|A|, |B|)
ScoreAtLeast(i, j) == CommonWords(i) * LongerSide(j) >= CommonWords(j) * LongerSide(i)

\* The positions of images_info whose score is the highest
BestScoring ==
  { i \in 1..Len(images6) : \A j \in 1..Len(images6) : ScoreAtLeast(i, j) }

\* The cascade has run and none of the first three tiers matched
TokenTierDecides == pc6 = "resolved" /\ \A t \in 1..3 : TierHits(t) = {}

\* The token-overlap tier accepts a best-scoring image if and only if its
\* score is at least 0.5
BestAcceptedFromHalf ==
  TokenTierDecides =>
    /\ tier6 = 4 <=> \E i \in BestScoring :
                       CommonWords(i) > 0 /\ 2 * CommonWords(i) >= LongerSide(i)
    /\ tier6 = 4 => \E i \in BestScoring : local_path = images6[i].path
    /\ tier6 # 4 => local_path = ""

\* C11 (as the code has it): the score is |A n B| / max(|A|, |B|) over the
\* word sets of the two names and the best-scoring image is accepted if and
\* only if its score is at least 0.5; "immune response graphic" against
\* "immune_cells" scores 1/3 and is not matched, "immune system" against
\* "immune_cells" scores 1/2 and is matched.
C11_TokenOverlapThreshold ==
  /\ BestAcceptedFromHalf
  /\ (/\ pc6 = "resolved"
      /\ Len(images6) >= 1
      /\ \A i \in 1..Len(images6) : images6[i].name = N_immune_cells)
     => /\ img_name = N_immune_response_graphic => tier6 = 0
        /\ img_name = N_immune_system => tier6 = 4

\* "immune system" matched to "immune_cells" by the token-overlap tier
C11_Witness ==
  /\ pc6 = "resolved"
  /\ img_name = N_immune_system
  /\ Len(images6) = 1 /\ images6[1].name = N_immune_cells
  /\ exists6 = {"img1.png"}
  /\ tier6 = 4 /\ local_path = "img1.png"

\* C11 (as stated): the same threshold, and "immune response graphic"
\* against "immune_cells" is matched by the token-overlap tier.
C11_AsStated ==
  /\ BestAcceptedFromHalf
  /\ (/\ pc6 = "resolved"
      /\ img_name = N_immune_response_graphic
      /\ \E i \in 1..Len(images6) : images6[i].name = N_immune_cells)
     => tier6 = 4

\* C12: every rendered clip lasts max(planned slide_duration, duration of
\* its narration audio), so no clip is shorter than its narration audio
\* (planned 6 s and audio of 9.2 s give a clip of 9.2 s).
C12_ClipCoversNarration ==
  \A k \in 1..Len(segment_files) :
    LET clip == segment_files[k]
        planned == PlannedDuration(slides7[clip.index + 1])
    IN /\ clip.duration = MaxOf2(planned, clip.audio)
       /\ clip.duration >= clip.audio

\* What is spoken for the slides handled so far: the narration of each clip,
\* and the narration of the slide whose audio has just been made
SpokenSoFar ==
  { [index |-> segment_files[k].index, narration |-> segment_files[k].narration] :
      k \in 1..Len(segment_files) }
  \cup (IF pc7 \in {"choose", "render"}
        THEN {[index |-> i7, narration |-> narration7]} ELSE {})

\* C13: the narration spoken for slide i is the narration of script segment
\* i whenever the script has a segment at index i; the slide's own caption
\* or title is spoken only when the script has no segment at index i (the
\* script file is missing or shorter).
C13_ScriptNarrationFirst ==
  \A sp \in SpokenSoFar :
    LET slide == slides7[sp.index + 1]
    IN /\ sp.index < Len(script_segments) =>
            sp.narration = script_segments[sp.index + 1]
       /\ sp.narration \in {slide.caption, slide.slide_title} =>
            sp.index >= Len(script_segments)
       /\ sp.index >= Len(script_segments) =>
            sp.narration \in {slide.narration, slide.caption, slide.slide_title}

\* The first clip speaks the script's narration, the second, for which the
\* script has no segment, the slide's own text
C13_Witness ==
  /\ Len(script_segments) = 1
  /\ Len(segment_files) = 2
  /\ segment_files[1].index = 0 /\ segment_files[1].narration = script_segments[1]
  /\ segment_files[2].index = 1
  /\ segment_files[2].narration \in {slides7[2].caption, slides7[2].slide_title}

\* C14: tts_synthesize picks its provider by configuration alone: with the
\* ElevenLabs key set only ElevenLabs is invoked, and its failure raises
\* instead of falling back; without the key and with pyttsx3 installed only
\* pyttsx3 is invoked; with neither the call raises; and the call returns
\* normally only after a synthesis succeeded.
C14_ProviderByConfiguration ==
  \A k \in 1..Len(tts_log) :
    LET call == tts_log[k]
    IN /\ elevenlabs_key => call.invoked = {"elevenlabs"}
       /\ (~elevenlabs_key /\ tts_local) => call.invoked = {"pyttsx3"}
       /\ (~elevenlabs_key /\ ~tts_local) => call.invoked = {} /\ call.raised
       /\ call.raised <=> ~call.synthesized

\* ElevenLabs failed with pyttsx3 installed: the call raised, pyttsx3 unused
C14_Witness ==
  /\ elevenlabs_key /\ tts_local
  /\ Len(tts_log) = 2
  /\ ~tts_log[1].raised
  /\ tts_log[2].raised /\ tts_log[2].invoked = {"elevenlabs"}


(***************************************************************************)
(* Stage 6, the slide loop of stage6_create_ffmpeg_slides.  The resolution *)
(* of one image reference is SpecResolve; here a slide carries the number  *)
(* of its references that resolved (found_images).                         *)
(***************************************************************************)
MaxRendered == 2

NoText == "None"

FoundCounts == {0, 1, 2}

Stage6DefaultDuration == 6

\* The image references of a slide: how many resolve to an available image,
\* how many have a name that matches nothing, and whether one of them is an
\* object without "name"
ImageRefShapes ==
  { [found |-> f, unmatched |-> 0, nameless |-> FALSE] : f \in FoundCounts }
  \cup { [found |-> 1, unmatched |-> 1, nameless |-> FALSE],
         [found |-> 0, unmatched |-> 1, nameless |-> FALSE],
         [found |-> 1, unmatched |-> 0, nameless |-> TRUE] }

\* The entries of step4_slides.json as the loop body reads them: whether
\* slide_data['slides'][0] exists, its image references, the top-level
\* slide_title, caption and slide_duration (NoDuration: absent)
SlideLayouts ==
  { [wrapped |-> w, found |-> refs.found, unmatched |-> refs.unmatched,
     nameless |-> refs.nameless,
     slide_title |-> IF t THEN "Immune cells" ELSE NoText,
     caption |-> IF t THEN "How cells respond" ELSE NoText,
     slide_duration |-> IF t THEN 8 ELSE NoDuration] :
      w \in BOOLEAN, refs \in ImageRefShapes, t \in BOOLEAN }

SlideLayoutLists ==
  UNION { [1..n -> SlideLayouts] : n \in 1..MaxRendered }

\* What the except clause of the per-slide try does with an exception
Stage6SlideFailureRaises == "raise"

OnSlideFailure == "continue"

\* The value of idx when the entry is appended: the inner loops
\* `for idx, img_info in enumerate(found_images)` rebind it
IdxAtAppend(slide, n) == IF slide.found = 0 THEN n ELSE slide.found - 1

\* if slide_data.get("slide_title") or slide_data.get("caption")
HasOverlayText(slide) == slide.slide_title # NoText \/ slide.caption # NoText

\* The entry appended to exported_slides; path n stands for slide_<n>.png
ExportedEntry(slide, n) ==
  [index |-> IdxAtAppend(slide, n),
   title |-> slide.slide_title,
   caption |-> slide.caption,
   path |-> n,
   duration |-> IF slide.slide_duration = NoDuration
                THEN Stage6DefaultDuration ELSE slide.slide_duration]

\* The body of the try for slide n: rc is ffmpeg's return code, overlay_ok
\* whether the PIL text overlay went through.  slide_data['slides'][0] raises
\* KeyError on a slide without "slides", img_name.lower() raises on a
\* reference without a name (img_name is None), both before ffmpeg is run;
\* a named reference that matches nothing is skipped
SlideAttempt(slide, n, rc, overlay_ok) ==
  IF ~slide.wrapped \/ slide.nameless
  THEN [raised |-> TRUE, png |-> FALSE, rc |-> -1, overlay |-> "not_run"]
  ELSE IF rc # 0
  THEN [raised |-> TRUE, png |-> FALSE, rc |-> rc, overlay |-> "not_run"]
  ELSE IF HasOverlayText(slide) /\ ~overlay_ok
  THEN [raised |-> TRUE, png |-> TRUE, rc |-> 0, overlay |-> "failed"]
  ELSE [raised |-> FALSE, png |-> TRUE, rc |-> 0,
        overlay |-> IF HasOverlayText(slide) THEN "ok" ELSE "not_run"]

InitSlides6 ==
  /\ Stage3Idle /\ Stage4Idle /\ Stage7Idle /\ RestIdleButMore /\ RunIdle
  /\ Stage2Idle /\ Endpoint3Idle
  /\ slides_data \in SlideLayoutLists
  /\ ffmpeg_present \in BOOLEAN
  /\ pc6s = "called"
  /\ slide_no = 0
  /\ exported_slides = <<>>
  /\ slide_pngs = {}
  /\ slides_info_file = <<"none">>
  /\ attempts6 = <<>>

\* if shutil.which("ffmpeg") is None: raise; load the layout, build lookups
S6sEnter ==
  /\ pc6s = "called"
  /\ pc6s' = IF ffmpeg_present THEN "for_slide" ELSE "raised"
  /\ UNCHANGED <<slides_data, ffmpeg_present, slide_no, exported_slides,
                 slide_pngs, slides_info_file, attempts6>>
  /\ UNCHANGED <<vars3, vars4, vars7, varsP, vars5, vars1, vars6, varsRun, vars2, vars3e>>

\* One iteration of for idx, slide_data in enumerate(slides_data)
S6sSlide ==
  /\ pc6s = "for_slide"
  /\ slide_no < Len(slides_data)
  /\ \E rc \in {0, 1}, overlay_ok \in BOOLEAN :
       LET slide == slides_data[slide_no + 1]
           tried == SlideAttempt(slide, slide_no, rc, overlay_ok)
       IN /\ attempts6' = Append(attempts6,
               [rc |-> tried.rc, overlay |-> tried.overlay,
                composited |-> IF tried.rc = -1 THEN 0 ELSE slide.found])
          /\ slide_pngs' = IF tried.png THEN slide_pngs \cup {slide_no}
                           ELSE slide_pngs
          /\ exported_slides' =
               IF tried.raised THEN exported_slides
               ELSE Append(exported_slides, ExportedEntry(slide, slide_no))
          /\ IF tried.raised /\ OnSlideFailure = "raise"
             THEN pc6s' = "raised" /\ slide_no' = slide_no
             ELSE pc6s' = "for_slide" /\ slide_no' = slide_no + 1
  /\ UNCHANGED <<slides_data, ffmpeg_present, slides_info_file>>
  /\ UNCHANGED <<vars3, vars4, vars7, varsP, vars5, vars1, vars6, varsRun, vars2, vars3e>>

\* save_json(exported_slides, info_path); return exported_slides
S6sReturn ==
  /\ pc6s = "for_slide"
  /\ slide_no = Len(slides_data)
  /\ slides_info_file' = exported_slides
  /\ pc6s' = "returned"
  /\ UNCHANGED <<slides_data, ffmpeg_present, slide_no, exported_slides,
                 slide_pngs, attempts6>>
  /\ UNCHANGED <<vars3, vars4, vars7, varsP, vars5, vars1, vars6, varsRun, vars2, vars3e>>

NextSlides6 == S6sEnter \/ S6sSlide \/ S6sReturn

SpecSlides6 == InitSlides6 /\ [][NextSlides6]_vars

\* The slide positions, in order, whose attempt produced the finished image
RasterizedUpTo(k) ==
  SelectSeq([j \in 1..k |-> j - 1],
            LAMBDA n : attempts6[n + 1].rc = 0
                       /\ attempts6[n + 1].overlay # "failed")

\* C15: a slide whose ffmpeg run fails is logged and skipped: Stage 6 raises
\* only before the first slide (tool absent), goes through every slide, and
\* returns the slides whose image was produced, in slide order.
C15_SlideFailureIsLocal ==
  /\ pc6s = "raised" => attempts6 = <<>>
  /\ pc6s = "returned" => Len(attempts6) = Len(slides_data)
  /\ [k \in 1..Len(exported_slides) |-> exported_slides[k].path]
       = RasterizedUpTo(Len(attempts6))

\* ffmpeg failed on the first of two slides and the second one was returned
C15_Witness ==
  /\ pc6s = "returned"
  /\ Len(attempts6) = 2
  /\ attempts6[1].rc = 1
  /\ Len(exported_slides) = 1
  /\ exported_slides[1].path = 1


(***************************************************************************)
(* The pipeline run: run_agent (the web application's entry) and           *)
(* run_full_pipeline (the command line's), two runs for different trials   *)
(* executing side by side.  A stage is one call; what it does inside is    *)
(* in the stage specifications above.                                      *)
(***************************************************************************)
Entries == {"run_agent", "run_full_pipeline"}

Timestamps == {"20251025_101500", "20251025_101501"}

TrialOf(r) == IF r = 1 THEN "trial_7" ELSE "trial_8"

\* script["segments"] positions and the image names of a run
SegmentIndexes == {0, 1}

\* The working directory, where the module-level OUT_DIR, IMAGES_DIR and
\* PPTX_SLIDES_DIR live
Cwd == <<>>

\* trial_output_dir of run_agent
TrialOutputDir(r, ts) == <<"uploads", "video_outputs", TrialOf(r), ts>>

\* tempfile.mkdtemp(prefix="video_build_"): a fresh directory per call
TempDir(r) == <<"tmp", IF r = 1 THEN "video_build_a" ELSE "video_build_b">>

IsPrefix(dir, path) ==
  /\ Len(dir) <= Len(path)
  /\ \A k \in 1..Len(dir) : path[k] = dir[k]

\* The directory a stage's keyword arguments point it to: run_agent passes
\* paths under trial_output_dir, run_full_pipeline leaves the defaults
StageDir(entry, r, ts) ==
  IF entry = "run_agent" THEN TrialOutputDir(r, ts) ELSE Cwd

SlidesDirName(entry) == IF entry = "run_agent" THEN "slides" ELSE "pptx_slides"

\* The files stage k writes when it runs to its end
StageWrites(entry, r, ts, k) ==
  LET dir == StageDir(entry, r, ts)
  IN CASE k = 1 -> {dir \o <<"outputs", "step1_script.json">>}
       [] k = 2 -> {Cwd \o <<"outputs", "step2_segment0_raw.json">>,
                    Cwd \o <<"outputs", "step2_segment1_raw.json">>,
                    dir \o <<"outputs", "step2_assets.json">>}
       [] k = 3 -> {dir \o <<"images", "cell.png">>}
       [] k = 4 -> {dir \o <<"images", "no_bg", "cell_nobg.png">>}
       [] k = 5 -> {dir \o <<"outputs", "step4_slides.json">>}
       [] k = 6 -> {dir \o <<SlidesDirName(entry), "slide_000.png">>,
                    dir \o <<SlidesDirName(entry), "slide_001.png">>,
                    Cwd \o <<"outputs", "ffmpeg_slides_info.json">>}
       [] k = 7 -> {TempDir(r) \o <<"slide_0.wav">>,
                    TempDir(r) \o <<"slide_0.mp4">>,
                    TempDir(r) \o <<"concat.txt">>,
                    TempDir(r) \o <<"final_tmp.mp4">>,
                    IF entry = "run_agent"
                    THEN dir \o <<"final_video.mp4">>
                    ELSE dir \o <<"outputs", "final_video.mp4">>}

\* The files stage k has written when it raises: Stage 2 dumps the response
\* of a segment before validating it
StageWritesBeforeRaise(entry, r, ts, k) ==
  IF k = 2 THEN {Cwd \o <<"outputs", "step2_segment0_raw.json">>} ELSE {}

\* final_video_path as the orchestrator names it
FinalVideoPath(entry, r, ts) ==
  IF entry = "run_agent"
  THEN TrialOutputDir(r, ts) \o <<"final_video.mp4">>
  ELSE Cwd \o <<"outputs", "final_video.mp4">>

WritesOf(paths, r, k) == { [path |-> p, run |-> r, stage |-> k] : p \in paths }

InitRun ==
  /\ Stage3Idle /\ Stage4Idle /\ Stage7Idle /\ RestIdleButMore /\ Slides6Idle
  /\ Stage2Idle /\ Endpoint3Idle
  /\ run_entry \in [Runs -> Entries]
  /\ run_ts \in [Runs -> Timestamps]
  /\ run_phase = [r \in Runs |-> "called"]
  /\ run_next = [r \in Runs |-> 1]
  /\ stage_state = [r \in Runs |-> [k \in Stages |-> "not_started"]]
  /\ started = [r \in Runs |-> <<>>]
  /\ outcome = [r \in Runs |-> NoOutcome]
  /\ written = {}

RunFrame ==
  UNCHANGED <<vars3, vars4, vars7, varsP, vars5, vars1, vars6, vars6s, vars2,
              vars3e>>

\* run_agent: makedirs, input_summary.txt; run_full_pipeline: nothing
RunBegin(r) ==
  /\ run_phase[r] = "called"
  /\ run_phase' = [run_phase EXCEPT ![r] = "between"]
  /\ written' =
       IF run_entry[r] = "run_agent"
       THEN written \cup WritesOf({TrialOutputDir(r, run_ts[r])
                                     \o <<"outputs", "input_summary.txt">>}, r, 0)
       ELSE written
  /\ UNCHANGED <<run_entry, run_ts, run_next, stage_state, started, outcome>>
  /\ RunFrame

\* The call of stage run_next
RunStartStage(r) ==
  /\ run_phase[r] = "between"
  /\ run_next[r] \in Stages
  /\ run_phase' = [run_phase EXCEPT ![r] = "in_stage"]
  /\ stage_state' = [stage_state EXCEPT ![r][run_next[r]] = "running"]
  /\ started' = [started EXCEPT ![r] = Append(@, run_next[r])]
  /\ UNCHANGED <<run_entry, run_ts, run_next, outcome, written>>
  /\ RunFrame

\* The stage returns; after Stage 7 the orchestrator returns too: run_agent
\* writes metadata.json and reports success, run_full_pipeline returns None
RunStageReturns(r) ==
  /\ run_phase[r] = "in_stage"
  /\ LET k == run_next[r]
         entry == run_entry[r]
     IN /\ stage_state' = [stage_state EXCEPT ![r][k] = "returned"]
        /\ run_next' = [run_next EXCEPT ![r] = k + 1]
        /\ IF k < 7
           THEN /\ run_phase' = [run_phase EXCEPT ![r] = "between"]
                /\ outcome' = outcome
                /\ written' = written
                     \cup WritesOf(StageWrites(entry, r, run_ts[r], k), r, k)
           ELSE /\ run_phase' = [run_phase EXCEPT ![r] = "finished"]
                /\ outcome' = [outcome EXCEPT ![r] =
                     IF entry = "run_agent"
                     THEN [status |-> "success",
                           file_path |-> FinalVideoPath(entry, r, run_ts[r])]
                     ELSE [status |-> "returned", file_path |-> NoVideoPath]]
                /\ written' = written
                     \cup WritesOf(StageWrites(entry, r, run_ts[r], k), r, k)
                     \cup (IF entry = "run_agent"
                           THEN WritesOf({TrialOutputDir(r, run_ts[r])
                                            \o <<"metadata.json">>}, r, 8)
                           ELSE {})
  /\ UNCHANGED <<run_entry, run_ts, started>>
  /\ RunFrame

\* The stage raises.  run_agent: except Exception writes error.json and
\* returns the error result.  run_full_pipeline: Stages 1..5 are called
\* bare, Stage 6 and Stage 7 inside try/except that logs and goes on.
RunStageRaises(r) ==
  /\ run_phase[r] = "in_stage"
  /\ LET k == run_next[r]
         entry == run_entry[r]
         partial == WritesOf(StageWritesBeforeRaise(entry, r, run_ts[r], k), r, k)
     IN /\ stage_state' = [stage_state EXCEPT ![r][k] = "raised"]
        /\ IF entry = "run_agent"
           THEN /\ run_phase' = [run_phase EXCEPT ![r] = "finished"]
                /\ run_next' = run_next
                /\ outcome' = [outcome EXCEPT ![r] =
                                 [status |-> "error", file_path |-> NoVideoPath]]
                /\ written' = written \cup partial
                     \cup WritesOf({TrialOutputDir(r, run_ts[r])
                                      \o <<"error.json">>}, r, 8)
           ELSE IF k = 6
           THEN /\ run_phase' = [run_phase EXCEPT ![r] = "between"]
                /\ run_next' = [run_next EXCEPT ![r] = 7]
                /\ outcome' = outcome
                /\ written' = written \cup partial
           ELSE IF k = 7
           THEN /\ run_phase' = [run_phase EXCEPT ![r] = "finished"]
                /\ run_next' = run_next
                /\ outcome' = [outcome EXCEPT ![r] =
                                 [status |-> "returned", file_path |-> NoVideoPath]]
                /\ written' = written \cup partial
           ELSE /\ run_phase' = [run_phase EXCEPT ![r] = "finished"]
                /\ run_next' = run_next
                /\ outcome' = [outcome EXCEPT ![r] =
                                 [status |-> "exception", file_path |-> NoVideoPath]]
                /\ written' = written \cup partial
  /\ UNCHANGED <<run_entry, run_ts, started>>
  /\ RunFrame

NextRun ==
  \E r \in Runs :
    RunBegin(r) \/ RunStartStage(r) \/ RunStageReturns(r) \/ RunStageRaises(r)

SpecRun == InitRun /\ [][NextRun]_vars

\* error.json of run r was written
ErrorRecordPersisted(r) ==
  \E w \in written :
    w.run = r /\ w.path = TrialOutputDir(r, run_ts[r]) \o <<"error.json">>

\* C16: once a stage of a run has raised, no later stage of that run is
\* started, and the finished run reports status "error" with no video path
\* and has persisted an error record; status "success" is reported only with
\* all seven stages returned and the final video path.
C16_FailureReachesCaller ==
  \A r \in Runs :
    /\ \A k \in Stages :
         stage_state[r][k] = "raised" =>
           /\ \A j \in Stages : j > k => stage_state[r][j] = "not_started"
           /\ run_phase[r] = "finished" =>
                /\ outcome[r].status = "error"
                /\ outcome[r].file_path = NoVideoPath
                /\ ErrorRecordPersisted(r)
    /\ outcome[r].status = "success" =>
         /\ \A k \in Stages : stage_state[r][k] = "returned"
         /\ outcome[r].file_path = FinalVideoPath(run_entry[r], r, run_ts[r])


\* C17: every file a run_agent run writes lies under its trial_output_dir,
\* two such runs never write the same file, and within a run no two stages
\* write the same file.
C17_RunsWriteDisjointFiles ==
  /\ \A w \in written :
       run_entry[w.run] = "run_agent" =>
         IsPrefix(TrialOutputDir(w.run, run_ts[w.run]), w.path)
  /\ \A w1, w2 \in written :
       /\ (/\ w1.run # w2.run
           /\ run_entry[w1.run] = "run_agent"
           /\ run_entry[w2.run] = "run_agent") => w1.path # w2.path
       /\ (w1.run = w2.run /\ w1.stage # w2.stage) => w1.path # w2.path

\* C19: in every run the stages start in the order 1, 2, ..., each at most
\* once, and a stage starts only after the one before it has returned.
C19_StagesInOrder ==
  \A r \in Runs :
    /\ started[r] = [k \in 1..Len(started[r]) |-> k]
    /\ \A k \in 2..Len(started[r]) : stage_state[r][k - 1] = "returned"


\* The section titles a Script artifact holds, in the order of its text
SectionTitlesIn(bytes) ==
  LET at == SelectSeq([k \in 1..Len(bytes) |-> k],
                      LAMBDA k : bytes[k] = Token("key", <<"section_title">>))
  IN [n \in 1..Len(at) |-> bytes[at[n] + 1].s]

C20_SlidesAlignedWithSegments ==
  pc5 = "returned" =>
    /\ slides_file
    /\ Len(slides5) = Len(segments5)
    /\ \A i \in 1..Len(slides5) :
         LET parsed == RobustParseJson(raws5[i]).value
             from_object == IsDict(parsed)
         IN /\ slides5[i].from_model = IF from_object THEN parsed ELSE <<>>
            /\ (~from_object \/ "T" \notin KeysAtDepth1(parsed, 1, 0)) =>
                 slides5[i].slide_title = segments5[i].section_title
            /\ slides5[i].caption = segments5[i].educational_goal

\* Two segments: an object without slide_title for the first, prose for
\* the second
C20_Witness ==
  /\ pc5 = "returned"
  /\ Len(segments5) = 2
  /\ IsDict(slides5[1].from_model)
  /\ slides5[1].slide_title = segments5[1].section_title
  /\ slides5[2].from_model = <<>>
  /\ slides5[2].caption = segments5[2].educational_goal
  /\ segments5[1] # segments5[2]


(***************************************************************************)
(* Stage 2: stage2_generate_assets and validate_assets_json.               *)
(***************************************************************************)
NoSegmentIndex == [type |-> "absent", n |-> 0]

SegmentIndex(k) == [type |-> "int", n |-> k]

\* An asset with every field in order and no segment_index of its own
GoodAssetNamed(nm) ==
  [type |-> "dict", name |-> StrVal(nm), style |-> GoodText,
   purpose |-> GoodText, prompt |-> GoodText, segment_index |-> NoSegmentIndex]

GoodAsset == GoodAssetNamed(<<"c", "e", "l", "l">>)

\* for k in ["name", "style", "purpose", "prompt"]
RequiredAssetKeys == <<"name", "style", "purpose", "prompt">>

\* The assets a model response may hold: good, a key missing, a value that
\* is a number, an empty string, a segment_index of the model's own, and an
\* entry that is a string
AssetValues ==
  {GoodAsset,
   [GoodAsset EXCEPT !.name = Absent],
   [GoodAsset EXCEPT !.style = IntVal],
   [GoodAsset EXCEPT !.purpose = StrVal(<<>>)],
   [GoodAsset EXCEPT !.segment_index = SegmentIndex(7)],
   [GoodAsset EXCEPT !.type = "str"]}

\* A JSON value where a list of assets is looked for
ListOf(items) == [type |-> "list", items |-> items]

NonList == [type |-> "str", items |-> <<>>]

AbsentValue == [type |-> "absent", items |-> <<>>]

\* What the key "segments" of a response may hold: kind says whether it is
\* absent, an empty list, no list, or a list; first_va is what
\* segments[0]["visual_assets"] holds
SegmentsSlot(kind, first_va) == [kind |-> kind, first_va |-> first_va]

NoSegments == SegmentsSlot("absent", AbsentValue)

SegmentsSlots ==
  {NoSegments, SegmentsSlot("empty_list", AbsentValue),
   SegmentsSlot("str", AbsentValue), SegmentsSlot("list", AbsentValue),
   SegmentsSlot("list", NonList),
   SegmentsSlot("list", ListOf(<<GoodAssetNamed(<<"s">>)>>))}

AssetSeqs == UNION { [1..n -> AssetValues] : n \in 0..2 }

\* What robust_parse_json makes of a response: it raises, or returns a
\* string, a bare list, or an object with some of the keys segments,
\* visual_assets and assets
ParsedResponses ==
  { [type |-> t, items |-> <<>>, segments |-> NoSegments,
     visual_assets |-> AbsentValue, assets |-> AbsentValue] : t \in {"error", "str"} }
  \cup { [type |-> "list", items |-> items, segments |-> NoSegments,
          visual_assets |-> AbsentValue, assets |-> AbsentValue] :
           items \in AssetSeqs }
  \cup { [type |-> "dict", items |-> <<>>, segments |-> segs,
          visual_assets |-> va, assets |-> a] :
           segs \in SegmentsSlots,
           va \in {AbsentValue, NonList, ListOf(<<GoodAssetNamed(<<"v">>)>>)},
           a \in {AbsentValue, NonList, ListOf(<<GoodAssetNamed(<<"a">>)>>)} }

\* parsed as a value, when it is used as the asset list itself
AsValue(parsed) ==
  IF parsed.type = "list" THEN ListOf(parsed.items)
  ELSE [type |-> parsed.type, items |-> <<>>]

\* The unwrapping of the response: assets = parsed, then the if / elif chain
ExtractAssets(parsed) ==
  IF parsed.type # "dict" THEN AsValue(parsed)
  ELSE IF parsed.segments.kind = "list"
  THEN (IF parsed.segments.first_va.type # "absent"
        THEN parsed.segments.first_va ELSE AsValue(parsed))
  ELSE IF parsed.visual_assets.type # "absent" THEN parsed.visual_assets
  ELSE IF parsed.assets.type # "absent" THEN parsed.assets
  ELSE AsValue(parsed)

\* validate_assets_json(obj); an entry that is no object makes the test
\* `k not in a` fail or raise, and either way the stage raises
ValidateAssetsJson(obj) ==
  /\ obj.type = "list"
  /\ \A i \in 1..Len(obj.items) :
       /\ obj.items[i].type = "dict"
       /\ \A k \in 1..Len(RequiredAssetKeys) :
            HasKey(obj.items[i], RequiredAssetKeys[k])

\* a.setdefault("segment_index", idx)
WithSegmentIndex(a, idx) ==
  IF a.segment_index.type = "absent"
  THEN [a EXCEPT !.segment_index = SegmentIndex(idx)] ELSE a

InitStage2 ==
  /\ Stage3Idle /\ Stage4Idle /\ Stage7Idle /\ RestIdleButMore
  /\ Slides6Idle /\ RunIdle /\ Endpoint3Idle
  /\ segments2 \in 1..MaxSegments
  /\ pc2 = "called"
  /\ idx2 = 0
  /\ responses2 = <<>>
  /\ all_assets = <<>>
  /\ origins2 = <<>>
  /\ debug_dumps = {}
  /\ assets_file = NoAssetsFile

Stage2Frame ==
  UNCHANGED <<vars3, vars4, vars7, varsP, vars5, vars1, vars6, vars6s, varsRun,
              vars3e>>

\* Load the script and the prompt template, all_assets = []
S2Enter ==
  /\ pc2 = "called"
  /\ pc2' = "for_seg"
  /\ UNCHANGED <<segments2, idx2, responses2, all_assets, origins2,
                 debug_dumps, assets_file>>
  /\ Stage2Frame

\* One iteration of for idx, seg in enumerate(script["segments"])
S2Segment ==
  /\ pc2 = "for_seg"
  /\ idx2 < segments2
  /\ \E parsed \in ParsedResponses :
       IF parsed.type = "error"
       THEN /\ pc2' = "raised"
            /\ UNCHANGED <<idx2, responses2, all_assets, origins2, debug_dumps>>
       ELSE LET assets_found == ExtractAssets(parsed)
            IN /\ debug_dumps' = debug_dumps \cup {idx2}
               /\ responses2' = Append(responses2, [parsed |-> parsed,
                                                    validated |-> assets_found])
               /\ IF ValidateAssetsJson(assets_found)
                  THEN /\ all_assets' = all_assets \o
                            [i \in 1..Len(assets_found.items) |->
                               WithSegmentIndex(assets_found.items[i], idx2)]
                       /\ origins2' = origins2 \o
                            [i \in 1..Len(assets_found.items) |-> idx2]
                       /\ idx2' = idx2 + 1
                       /\ pc2' = "for_seg"
                  ELSE /\ pc2' = "raised"
                       /\ UNCHANGED <<idx2, all_assets, origins2>>
  /\ UNCHANGED <<segments2, assets_file>>
  /\ Stage2Frame

\* save_json(all_assets, out_path); return all_assets
S2Save ==
  /\ pc2 = "for_seg"
  /\ idx2 = segments2
  /\ assets_file' = all_assets
  /\ pc2' = "returned"
  /\ UNCHANGED <<segments2, idx2, responses2, all_assets, origins2, debug_dumps>>
  /\ Stage2Frame

NextStage2 == S2Enter \/ S2Segment \/ S2Save

SpecStage2 == InitStage2 /\ [][NextStage2]_vars

\* An asset whose four fields are present as non-empty strings
WellFormedAsset(a) ==
  /\ a.type = "dict"
  /\ \A k \in 1..Len(RequiredAssetKeys) :
       /\ a[RequiredAssetKeys[k]].type = "str"
       /\ a[RequiredAssetKeys[k]].s # <<>>

\* C21: step2_assets.json holds only assets whose name, style, purpose and
\* prompt are non-empty strings, and once a response with another kind of
\* asset has been validated the stage has raised and writes no artifact.
C21_AssetsValidatedBeforePersisting ==
  /\ assets_file # NoAssetsFile =>
       \A i \in 1..Len(assets_file) : WellFormedAsset(assets_file[i])
  /\ \A j \in 1..Len(responses2) :
       (/\ responses2[j].validated.type = "list"
        /\ \E i \in 1..Len(responses2[j].validated.items) :
             ~WellFormedAsset(responses2[j].validated.items[i]))
         => pc2 = "raised" /\ assets_file = NoAssetsFile


\* What each extraction pattern yields for a response, in priority order:
\* segments[0].visual_assets, visual_assets, assets, the bare list
PatternValues(parsed) ==
  << IF parsed.type = "dict" /\ parsed.segments.kind = "list"
     THEN parsed.segments.first_va ELSE AbsentValue,
     IF parsed.type = "dict" THEN parsed.visual_assets ELSE AbsentValue,
     IF parsed.type = "dict" THEN parsed.assets ELSE AbsentValue,
     IF parsed.type = "list" THEN ListOf(parsed.items) ELSE AbsentValue >>

YieldsList(parsed) == { k \in 1..4 : PatternValues(parsed)[k].type = "list" }

FirstListYielded(parsed) ==
  PatternValues(parsed)[CHOOSE k \in YieldsList(parsed) :
                          \A m \in YieldsList(parsed) : k <= m]

\* C24: for every response in which some pattern yields a list, the value
\* handed to validate_assets_json is the list of the first such pattern.
C24_FirstPatternYieldingAList ==
  \A j \in 1..Len(responses2) :
    YieldsList(responses2[j].parsed) # {} =>
      responses2[j].validated = FirstListYielded(responses2[j].parsed)

\* C27: every asset of step2_assets.json carries the index of the segment
\* whose response it came from, so the list is in ascending segment order.
C27_SegmentIndexIsProvenance ==
  assets_file # NoAssetsFile =>
    /\ \A i \in 1..Len(assets_file) :
         assets_file[i].segment_index = SegmentIndex(origins2[i])
    /\ \A i \in 1..(Len(assets_file) - 1) :
         assets_file[i].segment_index.n <= assets_file[i + 1].segment_index.n


\* C22: the results of Stage 3 have pairwise distinct paths, and the file
\* written for an accepted asset is still that asset's (no later asset of
\* the run has written to the same path).
C22_OneFilePerAsset ==
  /\ \A i, j \in 1..Len(results) :
       results[i].path = results[j].path => i = j
  /\ \A k \in accepted :
       \E f \in image_files : f.path = ImgPath(assets[k]) /\ f.owner = k

(***************************************************************************)
(* Stage 3 against an endpoint that gives the same answer to every         *)
(* request of the call.                                                    *)
(***************************************************************************)
InitSteady3 ==
  /\ assets \in AssetLists
  /\ pc3 = "for_item"
  /\ idx3 = 1
  /\ attempt = 1
  /\ success = FALSE
  /\ current_prompt = <<>>
  /\ results = <<>>
  /\ calls = 0
  /\ simplify_calls = 0
  /\ image_files = {}
  /\ accepted = {}
  /\ attempted = {}
  /\ Stage4Idle /\ Stage7Idle /\ RestIdleButMore
  /\ Slides6Idle /\ RunIdle /\ Stage2Idle
  /\ resp3 \in Responses
  /\ write_ok3 \in BOOLEAN

S3SteadyLiteral == S3AttemptWith("literal", "simplify", resp3, write_ok3)

S3SteadySimplified == S3AttemptWith("simplified", "item_end", resp3, write_ok3)

NextSteady3 ==
  S3ForItem \/ S3SteadyLiteral \/ S3Simplify \/ S3SteadySimplified \/ S3ItemEnd

SpecSteady3 == InitSteady3 /\ [][NextSteady3]_vars

\* What C23 says of an endpoint whose answers have status 200: payloads of
\* at least `least` bytes are accepted at once; smaller ones are failed
\* attempts that write nothing and use up the attempts of the item
PayloadThreshold(least) ==
  /\ (resp3.status = "200" /\ resp3.len >= least /\ write_ok3) =>
       attempted = accepted /\ calls <= 1
  /\ (resp3.status = "200" /\ resp3.len < least) =>
       /\ results = <<>> /\ image_files = {} /\ accepted = {}
       /\ pc3 = "item_end" => calls = 2 * AttemptsPerPrompt

\* C23 (as the code has it): a payload is accepted if and only if it has at
\* least 1000 bytes; a smaller one counts as a failed attempt, writes no
\* file and consumes one attempt of the budget.
C23_AcceptedFromThreshold == PayloadThreshold(1000)

\* Every attempt for an asset got 999 bytes: six attempts, no file
C23_Witness ==
  /\ resp3 = [status |-> "200", len |-> 999]
  /\ pc3 = "item_end"
  /\ calls = 2 * AttemptsPerPrompt
  /\ results = <<>> /\ image_files = {}

\* C23 (as stated): accepted only above 1000 bytes, a payload of exactly
\* 1000 bytes being a failed attempt.
C23_AsStated == PayloadThreshold(1001)


\* clamp(narration_word_count / 2, 5, 12)
ClampedHalfWordCount(seg) ==
  LET half == Len(Words(seg.narration)) \div 2
  IN IF half < 5 THEN 5 ELSE IF half > 12 THEN 12 ELSE half

\* C25: no response of the model carries a slide_duration here, so every
\* slide's slide_duration is the clamped half word count of its segment's
\* narration, between 5 and 12.
C25_DefaultDurationClamped ==
  \A i \in 1..Len(slides5) :
    /\ slides5[i].slide_duration = ClampedHalfWordCount(segments5[i])
    /\ slides5[i].slide_duration \in 5..12


\* C26: a slide with an image reference that matches nothing, or that has
\* no name, is still handed to ffmpeg, with exactly its resolved images.
C26_UnmatchedReferenceDropped ==
  \A k \in 1..Len(attempts6) :
    (/\ slides_data[k].wrapped
     /\ slides_data[k].unmatched > 0 \/ slides_data[k].nameless) =>
      /\ attempts6[k].rc # -1
      /\ attempts6[k].composited = slides_data[k].found

\* C28: every entry Stage 6 returns has the position of its slide in the
\* layout list as index, and the path slide_<index>.
C28_IndexIsSlidePosition ==
  \A k \in 1..Len(exported_slides) :
    exported_slides[k].index = exported_slides[k].path

\* C29: when ffmpeg and the text overlay succeed wherever they are run,
\* Stage 6 returns one entry per slide of the layout list.
C29_EverySlideSpecConsumable ==
  (/\ pc6s = "returned"
   /\ \A k \in 1..Len(attempts6) :
        attempts6[k].rc # 1 /\ attempts6[k].overlay # "failed") =>
    Len(exported_slides) = Len(slides_data)


\* C30: every clip in the concatenation list was rendered from the
\* rasterized image of its own slide, slide_<i>.
C30_ClipShowsOwnSlide ==
  \A k \in 1..Len(segment_files) :
    segment_files[k].image = SlidePng(segment_files[k].index)

====
